---- MODULE Spec2Model ----
(***************************************************************************)
(* State-machine model of the eero QA test-case generator:                 *)
(*   combination_detector.py  (Requirement Detector, Business Rule Table)  *)
(*   coordinator_agent.py     (requirement analysis)                       *)
(*   retrieval_agent.py / generation_agent.py (retrieval, Template         *)
(*                             Selector, adaptation)                       *)
(*   multi_agent_system.py / main.py (orchestrator)                        *)
(*   test_case_parser.py / test_case_schema.py (Template Store parsing)    *)
(*                                                                         *)
(* Request texts are real strings; Python's `kw in text` is a substring    *)
(* search and str.lower() a character map.  Match scores are IEEE-754      *)
(* doubles, kept as integers in units of 2^-56 split in two limbs, with    *)
(* round-to-nearest-even after every addition, so that the threshold test  *)
(* and the order of the sort are those of the Python program.              *)
(***************************************************************************)
EXTENDS Integers, Sequences, FiniteSets, TLC

None == "None"
\* None where an integer is expected
NoneInt == 0 - 1
\* None where a story analysis is expected
NoAnalysis ==
    [order_types |-> <<>>, customer_segments |-> <<>>, truck_roll_preference |-> None,
     eero_types |-> <<>>, specific_scenarios |-> <<>>,
     device_lifecycle_required |-> FALSE, association_process_detected |-> FALSE]

Min(a, b) == IF a < b THEN a ELSE b
Max(a, b) == IF a > b THEN a ELSE b

Range(s) == {s[i] : i \in DOMAIN s}

(***************************************************************************)
(* Text: str.lower(), `kw in text`, any(kw in text for kw in list)         *)
(***************************************************************************)
UpperChars == "ABCDEFGHIJKLMNOPQRSTUVWXYZ"
LowerChars == "abcdefghijklmnopqrstuvwxyz"

LowerChar(c) ==
    IF \E i \in 1..26 : SubSeq(UpperChars, i, i) = c
    THEN LET i == CHOOSE k \in 1..26 : SubSeq(UpperChars, k, k) = c
         IN  SubSeq(LowerChars, i, i)
    ELSE c

UpperChar(c) ==
    IF \E i \in 1..26 : SubSeq(LowerChars, i, i) = c
    THEN LET i == CHOOSE k \in 1..26 : SubSeq(LowerChars, k, k) = c
         IN  SubSeq(UpperChars, i, i)
    ELSE c

\* str.lower(), character by character (by halves, to keep the recursion shallow)
RECURSIVE lower(_)
lower(s) ==
    IF Len(s) = 0 THEN ""
    ELSE IF Len(s) = 1 THEN LowerChar(s)
    ELSE lower(SubSeq(s, 1, Len(s) \div 2)) \o lower(SubSeq(s, Len(s) \div 2 + 1, Len(s)))

\* Python `kw in text`
In(kw, text) ==
    \E i \in 1..(Len(text) - Len(kw) + 1) : SubSeq(text, i, i + Len(kw) - 1) = kw

\* Python any(kw in text for kw in kws)
AnyIn(kws, text) == \E kw \in kws : In(kw, text)

\* Python x in list
Member(x, list) == \E i \in DOMAIN list : list[i] = x

(***************************************************************************)
(* Business Rule Table: the 31 catalog rules and the service-code mapping  *)
(***************************************************************************)
Rule(id, ot, cs, seg, tr, et) ==
    [id |-> id, order_type |-> ot, customer_status |-> cs, segment |-> seg,
     truck_roll |-> tr, eero_type |-> et]

valid_combinations == <<
    Rule(1,  "install", "new", "residential", "with", "eero"),
    Rule(2,  "install", "new", "residential", "with", "eero_plus"),
    Rule(3,  "install", "new", "residential", "no",   "eero"),
    Rule(4,  "install", "new", "residential", "no",   "eero_plus"),
    Rule(5,  "install", "new", "residential", "with", "eero_additional"),
    Rule(6,  "install", "new", "residential", "with", "eero_plus_additional"),
    Rule(7,  "install", "new", "residential", "no",   "eero_additional"),
    Rule(8,  "install", "new", "residential", "no",   "eero_plus_additional"),
    Rule(9,  "install", "new", "business", "with", "eero"),
    Rule(10, "install", "new", "business", "no",   "eero"),
    Rule(11, "install", "new", "business", "with", "eero_additional"),
    Rule(12, "install", "new", "business", "no",   "eero_additional"),
    Rule(13, "cos", "existing_hsd", "residential", "with", "add_eero"),
    Rule(14, "cos", "existing_hsd", "residential", "no",   "add_eero"),
    Rule(15, "cos", "existing_hsd_eero", "residential", "no", "remove_eero"),
    Rule(16, "cos", "existing_hsd_eero", "residential", "no", "add_additional"),
    Rule(17, "cos", "existing_hsd_eero_additional", "residential", "no", "remove_device_not_gateway"),
    Rule(18, "cos", "existing_hsd_eero_additional", "residential", "no", "remove_device_gateway"),
    Rule(19, "cos", "existing_hsd_eero_additional", "residential", "no", "remove_eero_service_device"),
    Rule(20, "cos", "existing_hsd", "residential", "with", "add_eero_plus"),
    Rule(21, "cos", "existing_hsd", "residential", "no",   "add_eero_plus"),
    Rule(22, "cos", "existing_hsd_eero_plus", "residential", "no", "remove_eero_plus"),
    Rule(23, "cos", "existing_hsd_eero", "residential", "no", "add_eero_plus_upgrade"),
    Rule(24, "cos", "existing_hsd_eero_plus", "residential", "no", "remove_eero_eero_plus"),
    Rule(25, "cos", "existing_hsd", "business", "with", "add_eero"),
    Rule(26, "cos", "existing_hsd", "business", "no",   "add_eero"),
    Rule(27, "cos", "existing_hsd_eero", "business", "no", "remove_eero"),
    Rule(28, "cos", "existing_hsd_eero", "business", "no", "add_additional"),
    Rule(29, "cos", "existing_hsd_eero_additional", "business", "no", "remove_device_not_gateway"),
    Rule(30, "cos", "existing_hsd_eero_additional", "business", "no", "remove_device_gateway"),
    Rule(31, "cos", "existing_hsd_eero_additional", "business", "no", "remove_eero_along_device") >>

service_code_mapping ==
    [ eero |-> "HE008", eero_plus |-> "HE009", eero_secure |-> "HE010",
      eero_additional |-> "HE008_MULTI", eero_plus_additional |-> "HE009_MULTI",
      add_eero |-> "HE008", add_eero_plus |-> "HE009",
      remove_eero |-> "REMOVE_HE008", remove_eero_plus |-> "REMOVE_HE009",
      add_additional |-> "ADD_HE008_DEVICE",
      remove_device_not_gateway |-> "REMOVE_DEVICE_NON_GATEWAY",
      remove_device_gateway |-> "REMOVE_DEVICE_GATEWAY",
      remove_eero_service_device |-> "REMOVE_HE008_ALL" ]

\* self.service_code_mapping.get(eero_type, "HE008")
ServiceCodeFor(eero_type) ==
    IF eero_type \in DOMAIN service_code_mapping
    THEN service_code_mapping[eero_type] ELSE "HE008"

(***************************************************************************)
(* _analyze_user_story                                                     *)
(***************************************************************************)
\* an analysis that reads nothing from the story: every default
_analyze_user_story_defaults(story) ==
    [ order_types |-> <<"install", "cos">>,
      customer_segments |-> <<"residential", "business">>,
      truck_roll_preference |-> "both",
      eero_types |-> <<"eero", "add_eero">>,
      specific_scenarios |-> <<>>,
      device_lifecycle_required |-> FALSE,
      association_process_detected |-> FALSE ]

_analyze_user_story(story) ==
    LET inst  == AnyIn({"install", "new customer", "first time", "setup"}, story)
        cos   == AnyIn({"change", "modify", "add", "remove", "upgrade", "existing", "cos"}, story)
        ot0   == (IF inst THEN <<"install">> ELSE <<>>) \o (IF cos THEN <<"cos">> ELSE <<>>)
        resi  == AnyIn({"residential", "resi", "home"}, story)
        busi  == AnyIn({"business", "commercial", "busi"}, story)
        seg0  == (IF resi THEN <<"residential">> ELSE <<>>) \o (IF busi THEN <<"business">> ELSE <<>>)
        truck == IF AnyIn({"no truck", "self install", "without technician"}, story) THEN "no"
                 ELSE IF AnyIn({"truck roll", "technician", "installation visit"}, story) THEN "with"
                 ELSE "both"
        assoc == AnyIn({"association", "associate", "binding", "bind", "device management",
                        "account-to-device", "partner account"}, story)
        et1   == IF AnyIn({"plus", "premium", "enhanced"}, story)
                 THEN <<"eero_plus", "add_eero_plus">> ELSE <<>>
        et2   == et1 \o (IF AnyIn({"additional", "multiple", "mesh", "more than one"}, story)
                         THEN <<"eero_additional", "add_additional">> ELSE <<>>)
        et3   == et2 \o (IF AnyIn({"remove", "delete"}, story)
                         THEN <<"remove_eero", "remove_device_not_gateway", "remove_device_gateway">>
                         ELSE <<>>)
        et4   == et3 \o (IF AnyIn({"basic", "standard"}, story) \/ et3 = <<>>
                         THEN <<"eero", "add_eero">> ELSE <<>>)
        et5   == et4 \o (IF assoc
                         THEN <<"remove_device_not_gateway", "remove_device_gateway",
                                "remove_eero_along_device">>
                         ELSE <<>>)
        seg1  == IF seg0 = <<>> THEN <<"residential", "business">> ELSE seg0
    IN  [ order_types |-> IF ot0 = <<>> THEN <<"install", "cos">> ELSE ot0,
          customer_segments |-> seg1,
          truck_roll_preference |-> truck,
          eero_types |-> et5,
          specific_scenarios |-> IF assoc
                                 THEN <<"device_association", "device_removal", "lifecycle_management">>
                                 ELSE <<>>,
          device_lifecycle_required |-> assoc,
          association_process_detected |-> assoc ]

(***************************************************************************)
(* IEEE-754 doubles (values below 4.0) as <<hi, lo>>: the integer          *)
(* hi * 2^28 + lo in units of 2^-56.  fadd rounds the exact sum to 53      *)
(* significant bits, ties to even, as Python's float `+=` does.            *)
(***************************************************************************)
Limb == 2^28

F_0_0  == <<0, 0>>
F_0_25 == <<67108864, 0>>
F_0_2  == <<53687091, 53687092>>
F_0_3  == <<80530636, 214748364>>
F_0_15 == <<40265318, 107374182>>
F_0_4  == <<107374182, 107374184>>
F_0_5  == <<134217728, 0>>

\* the spacing of doubles at this magnitude, in units of 2^-56
Ulp(hi) ==
    IF hi >= 2^28 THEN 16 ELSE IF hi >= 2^27 THEN 8
    ELSE IF hi >= 2^26 THEN 4 ELSE IF hi >= 2^25 THEN 2 ELSE 1

\* round to nearest, ties to even: down is a multiple of q, r the remainder
RoundHalfEven(down, r, q) ==
    IF 2 * r < q THEN down
    ELSE IF 2 * r > q THEN down + q
    ELSE IF down % (2 * q) = 0 THEN down ELSE down + q

RoundLow(lo, q) == RoundHalfEven(lo - (lo % q), lo % q, q)

Carry(hi, lo) == IF lo = Limb THEN <<hi + 1, 0>> ELSE <<hi, lo>>

fadd(a, b) ==
    Carry(a[1] + b[1] + ((a[2] + b[2]) \div Limb),
          RoundLow((a[2] + b[2]) % Limb, Ulp(a[1] + b[1] + ((a[2] + b[2]) \div Limb))))

\* a > b, a >= b on doubles
fgt(a, b) == a[1] > b[1] \/ (a[1] = b[1] /\ a[2] > b[2])
fge(a, b) == a = b \/ fgt(a, b)

\* list[:n] of Python, n any integer
PySlice(list, n) ==
    IF n >= 0 THEN SubSeq(list, 1, Min(n, Len(list)))
    ELSE SubSeq(list, 1, Max(0, Len(list) + n))

(***************************************************************************)
(* determine_test_case_count                                               *)
(***************************************************************************)
full_coverage_keywords ==
    {"comprehensive", "complete", "all scenarios", "full coverage", "entire workflow",
     "end-to-end", "all combinations", "thorough testing", "complete validation",
     "all test cases", "complete test suite", "exhaustive", "full suite"}

count_association_keywords ==
    {"association process", "retrieve orders", "account to device", "partner account id",
     "eero cloud", "customer account", "device association", "process built",
     "cable one to eero", "association", "comprehensive device testing"}

critical_keywords ==
    {"critical", "important", "priority", "business critical", "production",
     "essential", "mandatory", "required", "compliance", "validation"}

missing_combo_keywords ==
    {"device removal", "remove device", "device lifecycle", "gateway removal",
     "service removal", "equipment removal"}

complexity_score(story_lower, analysis) ==
    LET c1 == IF Len(analysis.customer_segments) >= 2 THEN 3 ELSE 1
        c2 == IF Len(analysis.order_types) >= 2 THEN 3 ELSE 1
        c3 == IF analysis.device_lifecycle_required THEN 4 ELSE 0
        c4 == IF analysis.association_process_detected THEN 3 ELSE 0
        n  == Cardinality(Range(analysis.eero_types))
        c5 == IF n >= 4 THEN 3 ELSE IF n >= 2 THEN 2 ELSE 1
        c6 == IF AnyIn(critical_keywords, story_lower) THEN 2 ELSE 0
        c7 == IF AnyIn(missing_combo_keywords, story_lower) THEN 2 ELSE 0
    IN  c1 + c2 + c3 + c4 + c5 + c6 + c7

\* a band mapping without the floors of the bands
score_to_count_halved(score) == score \div 2

score_to_count(score) ==
    IF score >= 15 THEN Min(31, Max(20, score))
    ELSE IF score >= 12 THEN Min(15, Max(10, score))
    ELSE IF score >= 8 THEN Min(12, Max(6, score))
    ELSE IF score >= 5 THEN Min(8, Max(4, score))
    ELSE Max(3, score)

\* a count that ignores the story
determine_test_case_count_minimal(user_story, story_analysis) == 3

\* the count of the complexity score alone, without the two short-circuits
determine_test_case_count_scored(user_story, story_analysis) ==
    score_to_count(complexity_score(lower(user_story),
                                    IF story_analysis = NoAnalysis
                                    THEN _analyze_user_story(lower(user_story))
                                    ELSE story_analysis))

\* story_analysis = None (NoAnalysis): the analysis is computed from the lowered story
determine_test_case_count(user_story, story_analysis) ==
    LET story_lower == lower(user_story)
        analysis == IF story_analysis = NoAnalysis
                    THEN _analyze_user_story(story_lower) ELSE story_analysis
    IN  IF AnyIn(full_coverage_keywords, story_lower) THEN 31
        ELSE IF AnyIn(count_association_keywords, story_lower) THEN 31
        ELSE score_to_count(complexity_score(story_lower, analysis))

(***************************************************************************)
(* _calculate_match_score                                                  *)
(***************************************************************************)
\* `if cond: match_score += weight`
AddIf(cond, match_score, weight) ==
    IF cond THEN fadd(match_score, weight) ELSE match_score

\* eero type matching: 0.3 for a listed type, 0.15 for a listed type contained in
\* the rule's type
EeroTypeScore(match_score, combo, analysis) ==
    IF Member(combo.eero_type, analysis.eero_types) THEN fadd(match_score, F_0_3)
    ELSE AddIf(\E i \in DOMAIN analysis.eero_types :
                   In(analysis.eero_types[i], combo.eero_type),
               match_score, F_0_15)

\* association_process_detected: 0.4 for removal rules, else 0.2 for cos rules
AssociationScore(match_score, combo, analysis) ==
    IF ~analysis.association_process_detected THEN match_score
    ELSE IF In("remove", combo.eero_type) THEN fadd(match_score, F_0_4)
    ELSE AddIf(combo.order_type = "cos", match_score, F_0_2)

_calculate_match_score(combo, analysis) ==
    LET s1 == AddIf(Member(combo.order_type, analysis.order_types), F_0_0, F_0_25)
        s2 == AddIf(Member(combo.segment, analysis.customer_segments), s1, F_0_25)
        s3 == AddIf(analysis.truck_roll_preference = "both"
                        \/ combo.truck_roll = analysis.truck_roll_preference,
                    s2, F_0_2)
        s4 == EeroTypeScore(s3, combo, analysis)
        s5 == AssociationScore(s4, combo, analysis)
    IN  AddIf(analysis.device_lifecycle_required /\ combo.segment = "business",
              s5, F_0_15)

(***************************************************************************)
(* detect_combinations_from_story and _get_default_combinations            *)
(***************************************************************************)
Detection(combo, score) ==
    [combination |-> combo, match_score |-> score,
     service_code |-> ServiceCodeFor(combo.eero_type)]

\* list.sort(key=match_score, reverse=True): stable, equal scores keep their order
RECURSIVE InsertDesc(_, _)
InsertDesc(x, s) ==
    IF s = <<>> THEN <<x>>
    ELSE IF fgt(x.match_score, Head(s).match_score) THEN <<x>> \o s
    ELSE <<Head(s)>> \o InsertDesc(x, Tail(s))

\* a list left in catalog order
SortDesc_unsorted(list) == list

RECURSIVE SortDesc(_)
SortDesc(list) ==
    IF list = <<>> THEN <<>>
    ELSE InsertDesc(list[Len(list)], SortDesc(SubSeq(list, 1, Len(list) - 1)))

\* the loop with the test `match_score >= 0.4`
RECURSIVE MatchingFrom_ge(_, _)
MatchingFrom_ge(i, analysis) ==
    IF i > Len(valid_combinations) THEN <<>>
    ELSE LET combo == valid_combinations[i]
             score == _calculate_match_score(combo, analysis)
         IN  (IF fge(score, F_0_4) THEN <<Detection(combo, score)>> ELSE <<>>)
             \o MatchingFrom_ge(i + 1, analysis)

\* the loop with the test `match_score > 1.0`
RECURSIVE MatchingFrom_above_one(_, _)
MatchingFrom_above_one(i, analysis) ==
    IF i > Len(valid_combinations) THEN <<>>
    ELSE LET combo == valid_combinations[i]
             score == _calculate_match_score(combo, analysis)
         IN  (IF fgt(score, <<Limb, 0>>) THEN <<Detection(combo, score)>> ELSE <<>>)
             \o MatchingFrom_above_one(i + 1, analysis)

\* the loop over self.valid_combinations: rules with match_score > 0.4, in catalog order
RECURSIVE MatchingFrom(_, _)
MatchingFrom(i, analysis) ==
    IF i > Len(valid_combinations) THEN <<>>
    ELSE LET combo == valid_combinations[i]
             score == _calculate_match_score(combo, analysis)
         IN  (IF fgt(score, F_0_4) THEN <<Detection(combo, score)>> ELSE <<>>)
             \o MatchingFrom(i + 1, analysis)

DefaultCombo(order_type, segment, eero_type) ==
    [combination |-> [id |-> 999, order_type |-> order_type,
                      customer_status |-> IF order_type = "install" THEN "new" ELSE "existing_hsd",
                      segment |-> segment, truck_roll |-> "with", eero_type |-> eero_type],
     match_score |-> F_0_5,
     service_code |-> ServiceCodeFor(eero_type)]

RECURSIVE Flatten(_)
Flatten(ss) == IF ss = <<>> THEN <<>> ELSE Head(ss) \o Flatten(Tail(ss))

_get_default_combinations(analysis, requested_count) ==
    LET ets == <<"eero", "eero_plus">>
        defaults ==
            Flatten([o \in DOMAIN analysis.order_types |->
              Flatten([s \in DOMAIN analysis.customer_segments |->
                [e \in DOMAIN ets |->
                   DefaultCombo(analysis.order_types[o], analysis.customer_segments[s], ets[e])]])])
    IN  PySlice(defaults, requested_count)

\* the list of rules above the threshold, sorted (before the default test and the cut)
SortedMatches(analysis) == SortDesc(MatchingFrom(1, analysis))

\* One run of detect_combinations_from_story, with its intermediate values:
\* the analysis, the count it worked with, the sorted list before the default
\* test and the cut, and the returned list
DetectorRun(user_story, requested_count) ==
    LET story_lower == lower(user_story)
        story_analysis == _analyze_user_story(story_lower)
        count == IF requested_count = NoneInt
                 THEN determine_test_case_count(user_story, story_analysis)
                 ELSE requested_count
        detected == SortedMatches(story_analysis)
        final == IF detected = <<>>
                 THEN _get_default_combinations(story_analysis, count)
                 ELSE detected
    IN  [story_analysis |-> story_analysis, requested_count |-> count,
         detected_combinations |-> detected,
         returned |-> PySlice(final, count * 2)]

detect_combinations_from_story(user_story, requested_count) ==
    DetectorRun(user_story, requested_count).returned

(***************************************************************************)
(* TestCaseRequirement.  The model is a pydantic model with extra="allow": *)
(* an attribute that was never set is kept as None (NoneInt for integer    *)
(* attributes) and read with getattr(req, name, default).                  *)
(***************************************************************************)

GetAttr(req, name, default) ==
    IF req[name] = None THEN default ELSE req[name]

\* TestCaseRequirement(customer_type=..., ..., count_needed=..., priority=...)
TestCaseRequirement(customer_type, scenario_type, truck_roll_type, count_needed, priority) ==
    [customer_type |-> customer_type, scenario_type |-> scenario_type,
     truck_roll_type |-> truck_roll_type, count_needed |-> count_needed,
     priority |-> priority,
     descriptive_name |-> None, combination_id |-> NoneInt, eero_type |-> None,
     service_code |-> None, customer_status |-> None, all_combinations |-> <<>>]

(***************************************************************************)
(* get_combination_requirements                                            *)
(***************************************************************************)
RECURSIVE RemoveUnderscores(_)
RemoveUnderscores(s) ==
    IF Len(s) = 0 THEN ""
    ELSE (IF SubSeq(s, 1, 1) = "_" THEN "" ELSE SubSeq(s, 1, 1))
         \o RemoveUnderscores(SubSeq(s, 2, Len(s)))

\* str.title() of a string of letters only: first letter upper, the rest lower
TitleWord(s) ==
    IF Len(s) = 0 THEN ""
    ELSE UpperChar(SubSeq(s, 1, 1)) \o lower(SubSeq(s, 2, Len(s)))

scenario_map ==
    [ remove_device_not_gateway  |-> "WithAdditionalEeroBusinessRemoveDeviceGatewayNo",
      remove_device_gateway      |-> "WithAdditionalEeroBusinessRemoveDeviceGatewayYes",
      remove_eero_along_device   |-> "WithAdditionalEeroBusinessRemoveEeroServiceDevice",
      remove_eero_service_device |-> "WithAdditionalEeroBusinessRemoveEeroServiceDevice" ]

CustomerTypeOf(combo) == IF combo.segment = "residential" THEN "RESI" ELSE "BUSI"
TruckRollTypeOf(combo) == IF combo.truck_roll = "with" THEN "With" ELSE "No"

group_key_standard(combo) ==
    CustomerTypeOf(combo) \o "-" \o combo.order_type \o "-" \o TruckRollTypeOf(combo) \o "Truck"

\* a grouping key without the exception for the critical ids
group_key_merged(combo) == group_key_standard(combo)

group_key(combo) ==
    IF combo.id \in {29, 30, 31}
    THEN LET scenario_desc ==
                 IF combo.eero_type \in DOMAIN scenario_map
                 THEN scenario_map[combo.eero_type]
                 ELSE TitleWord(RemoveUnderscores(combo.eero_type))
         IN  group_key_standard(combo) \o "-" \o scenario_desc
    ELSE group_key_standard(combo)

\* requirement_groups: a dict in insertion order, here a sequence of groups
RECURSIVE GroupDetections(_, _)
GroupDetections(detections, groups) ==
    IF detections = <<>> THEN groups
    ELSE LET detection == Head(detections)
             combo == detection.combination
             key == group_key(combo)
             known == \E g \in DOMAIN groups : groups[g].key = key
             groups1 == IF known THEN groups
                        ELSE Append(groups,
                               [key |-> key, customer_type |-> CustomerTypeOf(combo),
                                scenario_type |-> combo.order_type,
                                truck_roll_type |-> TruckRollTypeOf(combo),
                                count_needed |-> 0, priority |-> "high",
                                combinations |-> <<>>])
             g == CHOOSE k \in DOMAIN groups1 : groups1[k].key = key
             groups2 == [groups1 EXCEPT ![g].count_needed = @ + 1,
                                        ![g].combinations = Append(@, detection)]
         IN  GroupDetections(Tail(detections), groups2)

RequirementOfGroup(group) ==
    LET first == group.combinations[1]
        req == TestCaseRequirement(group.customer_type, group.scenario_type,
                                   group.truck_roll_type, group.count_needed, group.priority)
    IN  [req EXCEPT !.descriptive_name = group.key,
                    !.combination_id = first.combination.id,
                    !.eero_type = first.combination.eero_type,
                    !.service_code = first.service_code,
                    !.customer_status = first.combination.customer_status,
                    !.all_combinations =
                        [i \in DOMAIN group.combinations |-> group.combinations[i].combination.id]]

get_combination_requirements(detected) ==
    LET groups == GroupDetections(detected, <<>>)
    IN  [g \in DOMAIN groups |-> RequirementOfGroup(groups[g])]

(***************************************************************************)
(* _adjust_requirements_count                                              *)
(***************************************************************************)
RECURSIVE SumCounts(_)
SumCounts(reqs) ==
    IF reqs = <<>> THEN 0 ELSE Head(reqs).count_needed + SumCounts(Tail(reqs))

\* the indices, in list order, of the requirements with the given priority
PriorityIndices(reqs, priority) ==
    LET RECURSIVE From(_)
        From(i) == IF i > Len(reqs) THEN <<>>
                   ELSE (IF reqs[i].priority = priority THEN <<i>> ELSE <<>>) \o From(i + 1)
    IN  From(1)

\* for i, req in enumerate(targets): req.count_needed += per_req + (1 if i < remainder else 0)
Distribute(reqs, targets, deficit) ==
    LET per_req == deficit \div Len(targets)
        remainder == deficit % Len(targets)
    IN  [k \in DOMAIN reqs |->
           IF Member(k, targets)
           THEN LET i == (CHOOSE t \in DOMAIN targets : targets[t] = k) - 1
                IN  [reqs[k] EXCEPT !.count_needed = @ + per_req + (IF i < remainder THEN 1 ELSE 0)]
           ELSE reqs[k]]

\* a reduction loop that takes a requirement down to no test case at all
RECURSIVE ReduceFrom_to_zero(_, _, _, _)
ReduceFrom_to_zero(reqs, i, excess, only_low) ==
    IF i > Len(reqs) \/ excess <= 0 THEN <<reqs, excess>>
    ELSE IF (only_low => reqs[i].priority = "low") /\ reqs[i].count_needed > 0
    THEN LET reduction == Min(excess, reqs[i].count_needed)
         IN  ReduceFrom_to_zero([reqs EXCEPT ![i].count_needed = @ - reduction],
                                i + 1, excess - reduction, only_low)
    ELSE ReduceFrom_to_zero(reqs, i + 1, excess, only_low)

\* one reduction loop: over the low-priority requirements only, or over all of them
RECURSIVE ReduceFrom(_, _, _, _)
ReduceFrom(reqs, i, excess, only_low) ==
    IF i > Len(reqs) \/ excess <= 0 THEN <<reqs, excess>>
    ELSE IF (only_low => reqs[i].priority = "low") /\ reqs[i].count_needed > 1
    THEN LET reduction == Min(excess, reqs[i].count_needed - 1)
         IN  ReduceFrom([reqs EXCEPT ![i].count_needed = @ - reduction],
                        i + 1, excess - reduction, only_low)
    ELSE ReduceFrom(reqs, i + 1, excess, only_low)

_adjust_requirements_count(requirements, target_count) ==
    LET current_total == SumCounts(requirements)
    IN  IF current_total = target_count THEN requirements
        ELSE IF current_total < target_count
        THEN LET deficit == target_count - current_total
                 high == PriorityIndices(requirements, "high")
             IN  IF high # <<>> THEN Distribute(requirements, high, deficit)
                 ELSE Distribute(requirements, [k \in DOMAIN requirements |-> k], deficit)
        ELSE LET excess == current_total - target_count
                 low == ReduceFrom(requirements, 1, excess, TRUE)
             IN  IF low[2] > 0 THEN ReduceFrom(low[1], 1, low[2], FALSE)[1] ELSE low[1]

(***************************************************************************)
(* _llm_guided_analysis: the LLM reply is a list of lines, each already    *)
(* split at '|' into its fields, or the call raises.                       *)
(***************************************************************************)
RECURSIVE upper(_)
upper(s) ==
    IF Len(s) = 0 THEN ""
    ELSE IF Len(s) = 1 THEN UpperChar(s)
    ELSE upper(SubSeq(s, 1, Len(s) \div 2)) \o upper(SubSeq(s, Len(s) \div 2 + 1, Len(s)))

Digits == "0123456789"

IsDigit(c) == \E d \in 1..10 : SubSeq(Digits, d, d) = c

DigitValue(c) == (CHOOSE d \in 1..10 : SubSeq(Digits, d, d) = c) - 1

\* int(text) succeeds on a non-empty string of digits; anything else is a ValueError
IsIntText(text) == Len(text) > 0 /\ \A i \in 1..Len(text) : IsDigit(SubSeq(text, i, i))

RECURSIVE ParseInt(_)
ParseInt(text) ==
    IF Len(text) = 0 THEN 0
    ELSE 10 * ParseInt(SubSeq(text, 1, Len(text) - 1)) + DigitValue(SubSeq(text, Len(text), Len(text)))

\* _parse_diverse_requirements: one line; <<>> when the line is skipped
ParsedLine(parts, seen) ==
    IF Len(parts) < 5 THEN <<>>
    ELSE LET customer_type == upper(parts[1])
             scenario_type == lower(parts[2])
             truck_roll_type == TitleWord(parts[3])
             eero_type == lower(parts[4])
             priority == IF Len(parts) > 5 THEN upper(parts[6]) ELSE "MEDIUM"
             combo_signature == customer_type \o "-" \o scenario_type \o "-"
                                  \o truck_roll_type \o "-" \o eero_type
         IN  IF ~IsIntText(parts[5]) THEN <<>>
             ELSE IF customer_type \in {"RESI", "BUSI"}
                     /\ scenario_type \in {"install", "cos"}
                     /\ truck_roll_type \in {"No", "With"}
                     /\ ParseInt(parts[5]) > 0
                     /\ priority \in {"HIGH", "MEDIUM", "LOW"}
                     /\ combo_signature \notin seen
                  THEN << [ [TestCaseRequirement(customer_type, scenario_type, truck_roll_type,
                                                 ParseInt(parts[5]), lower(priority))
                             EXCEPT !.eero_type = eero_type]
                            EXCEPT !.descriptive_name = combo_signature ] >>
                  ELSE <<>>

RECURSIVE ParseLines(_, _)
ParseLines(lines, seen) ==
    IF lines = <<>> THEN <<>>
    ELSE LET got == ParsedLine(Head(lines), seen)
         IN  got \o ParseLines(Tail(lines),
                               IF got = <<>> THEN seen ELSE seen \cup {got[1].descriptive_name})

\* the signature is only the parser's diversity key, not an attribute of the requirement
_parse_diverse_requirements(lines) ==
    LET parsed == ParseLines(lines, {})
    IN  [i \in DOMAIN parsed |-> [parsed[i] EXCEPT !.descriptive_name = None]]

base_combinations_removal == <<
    <<"BUSI", "cos", "No", "remove_device_not_gateway", "high">>,
    <<"BUSI", "cos", "No", "remove_device_gateway", "high">>,
    <<"BUSI", "cos", "No", "remove_eero_along_device", "high">>,
    <<"RESI", "cos", "No", "remove_device_not_gateway", "high">>,
    <<"RESI", "cos", "No", "remove_device_gateway", "high">>,
    <<"RESI", "cos", "No", "remove_eero_along_device", "high">>,
    <<"BUSI", "cos", "With", "eero_plus", "medium">>,
    <<"RESI", "install", "With", "eero", "medium">> >>

base_combinations_default == <<
    <<"RESI", "install", "With", "eero", "high">>,
    <<"RESI", "cos", "No", "eero_plus", "medium">>,
    <<"BUSI", "install", "With", "eero", "medium">>,
    <<"RESI", "install", "No", "eero_additional", "medium">>,
    <<"BUSI", "cos", "No", "remove_device_not_gateway", "high">>,
    <<"BUSI", "cos", "No", "remove_device_gateway", "high">>,
    <<"BUSI", "cos", "No", "remove_eero_along_device", "high">>,
    <<"BUSI", "install", "No", "eero_additional", "low">>,
    <<"RESI", "cos", "With", "eero", "medium">>,
    <<"BUSI", "install", "With", "eero_plus", "low">>,
    <<"RESI", "install", "With", "eero_plus", "low">>,
    <<"BUSI", "cos", "No", "eero_additional", "low">>,
    <<"RESI", "cos", "No", "eero_additional", "low">>,
    <<"BUSI", "install", "No", "eero", "low">>,
    <<"RESI", "cos", "With", "eero_plus", "low">> >>

FallbackRequirement(c, count_needed) ==
    [TestCaseRequirement(c[1], c[2], c[3], count_needed, c[5]) EXCEPT !.eero_type = c[4]]

\* `if test_count > 0`: requirements with a zero count are not created
RECURSIVE PositiveCounts(_)
PositiveCounts(reqs) ==
    IF reqs = <<>> THEN <<>>
    ELSE (IF Head(reqs).count_needed > 0 THEN <<Head(reqs)>> ELSE <<>>)
         \o PositiveCounts(Tail(reqs))

_create_diverse_fallback(specific_scenarios, count) ==
    LET base == IF Member("removal", specific_scenarios)
                THEN base_combinations_removal ELSE base_combinations_default
    IN  IF count <= Len(base)
        THEN [i \in 1..Max(count, 0) |-> FallbackRequirement(base[i], 1)]
        ELSE LET base_count == count \div Len(base)
                 remainder == count % Len(base)
             IN  PositiveCounts(
                   [i \in DOMAIN base |->
                      FallbackRequirement(base[i],
                          base_count + (IF i - 1 < remainder THEN 1 ELSE 0))])

\* _get_combination_analysis_from_rag with self.rag_context = None (the
\* orchestrator builds CoordinatorAgent(self.llm)): the default analysis
combination_analysis_specific_scenarios == <<>>

\* reply: [kind |-> "error"] when the call raises, [kind |-> "ok", lines |-> ...] otherwise
_llm_guided_analysis(reply, number_of_test_cases_) ==
    IF reply.kind = "error"
    THEN _create_diverse_fallback(<<>>, number_of_test_cases_)
    ELSE LET parsed == _parse_diverse_requirements(reply.lines)
         IN  IF parsed = <<>>
             THEN _create_diverse_fallback(combination_analysis_specific_scenarios,
                                           number_of_test_cases_)
             ELSE parsed

(***************************************************************************)
(* Text helpers of the Template Store: str.strip(), str.split('\n'),       *)
(* ' '.join(list), str.replace(old, new)                                   *)
(***************************************************************************)
IsSpace(c) == c = " " \/ c = "\t"

CharAt(s, i) == SubSeq(s, i, i)

RECURSIVE lstrip(_)
lstrip(s) ==
    IF Len(s) > 0 /\ IsSpace(CharAt(s, 1)) THEN lstrip(SubSeq(s, 2, Len(s))) ELSE s

RECURSIVE rstrip(_)
rstrip(s) ==
    IF Len(s) > 0 /\ IsSpace(CharAt(s, Len(s))) THEN rstrip(SubSeq(s, 1, Len(s) - 1)) ELSE s

strip(s) == rstrip(lstrip(s))

\* content.split('\n'): the pieces between the newlines, empty ones included
split_lines(text) ==
    LET breaks == {i \in 1..Len(text) : CharAt(text, i) = "\n"}
        \* the position of the k-th newline; 0 and Len(text) + 1 close the ends
        Break(k) == IF k = 0 THEN 0
                    ELSE IF k > Cardinality(breaks) THEN Len(text) + 1
                    ELSE CHOOSE i \in breaks : Cardinality({j \in breaks : j < i}) = k - 1
    IN  [k \in 1..(Cardinality(breaks) + 1) |->
            SubSeq(text, Break(k - 1) + 1, Break(k) - 1)]

RECURSIVE join(_, _)
join(sep, list) ==
    IF list = <<>> THEN ""
    ELSE IF Len(list) = 1 THEN list[1]
    ELSE list[1] \o sep \o join(sep, Tail(list))

\* str.replace for a one-character old
RECURSIVE ReplaceChar(_, _, _)
ReplaceChar(s, old, new) ==
    IF Len(s) = 0 THEN ""
    ELSE IF Len(s) = 1 THEN (IF s = old THEN new ELSE s)
    ELSE ReplaceChar(SubSeq(s, 1, Len(s) \div 2), old, new)
         \o ReplaceChar(SubSeq(s, Len(s) \div 2 + 1, Len(s)), old, new)

\* the index of the first character at or after i that is not a digit
RECURSIVE SkipDigits(_, _)
SkipDigits(s, i) ==
    IF i <= Len(s) /\ IsDigit(CharAt(s, i)) THEN SkipDigits(s, i + 1) ELSE i

\* the index of the first character at or after i that is not white space
RECURSIVE SkipSpaces(_, _)
SkipSpaces(s, i) ==
    IF i <= Len(s) /\ IsSpace(CharAt(s, i)) THEN SkipSpaces(s, i + 1) ELSE i

(***************************************************************************)
(* TestCaseParser._parse_steps                                             *)
(***************************************************************************)
NoMatch == [matched |-> FALSE, step_number |-> "", step_content |-> ""]

\* r'^(\d+)\.\s*$'
MatchNumberAlone(line) ==
    LET d == SkipDigits(line, 1)
    IN  IF d > 1 /\ d <= Len(line) /\ CharAt(line, d) = "."
           /\ SkipSpaces(line, d + 1) > Len(line)
        THEN [matched |-> TRUE, step_number |-> SubSeq(line, 1, d - 1), step_content |-> ""]
        ELSE NoMatch

\* r'^(\d+)\.\s*(.+)': \s* gives one character back when nothing else is left for (.+)
MatchNumberContent(line) ==
    LET d == SkipDigits(line, 1)
        c == SkipSpaces(line, d + 1)
    IN  IF d > 1 /\ d <= Len(line) /\ CharAt(line, d) = "." /\ d < Len(line)
        THEN [matched |-> TRUE, step_number |-> SubSeq(line, 1, d - 1),
              step_content |-> SubSeq(line, Min(c, Len(line)), Len(line))]
        ELSE NoMatch

\* r'^\s*(\d+)\s*\.\s*(.+)'
MatchSpacedNumberContent(line) ==
    LET b == SkipSpaces(line, 1)
        d == SkipDigits(line, b)
        p == SkipSpaces(line, d)
        c == SkipSpaces(line, p + 1)
    IN  IF d > b /\ p <= Len(line) /\ CharAt(line, p) = "." /\ p < Len(line)
        THEN [matched |-> TRUE, step_number |-> SubSeq(line, b, d - 1),
              step_content |-> SubSeq(line, Min(c, Len(line)), Len(line))]
        ELSE NoMatch

\* for pattern in step_patterns: re.match(pattern, line), the first that matches
StepMatch(line) ==
    IF MatchNumberAlone(line).matched THEN MatchNumberAlone(line)
    ELSE IF MatchNumberContent(line).matched THEN MatchNumberContent(line)
    ELSE MatchSpacedNumberContent(line)

max_lines_per_step == 50

\* the look-ahead loop: <<j, step_lines>> when it stops
RECURSIVE CollectStepLines(_, _, _, _)
CollectStepLines(lines, j, collected_lines, step_lines) ==
    IF j > Len(lines) \/ collected_lines >= max_lines_per_step THEN <<j, step_lines>>
    ELSE LET next_line == strip(lines[j])
         IN  IF next_line = "" THEN CollectStepLines(lines, j + 1, collected_lines, step_lines)
             ELSE IF StepMatch(next_line).matched THEN <<j, step_lines>>
             ELSE CollectStepLines(lines, j + 1, collected_lines + 1,
                                   Append(step_lines, next_line))

verify_keywords == <<"verify", "check", "ensure", "confirm", "validate">>

\* re.search(kw + r'\s+(.+?)(?:\.|$)', text) from position i on: group 1, or None
RECURSIVE VerifySearch(_, _, _)
VerifySearch(kw, text, i) ==
    IF i + Len(kw) - 1 > Len(text) THEN None
    ELSE IF SubSeq(text, i, i + Len(kw) - 1) = kw
         THEN LET a == i + Len(kw)
                  b == SkipSpaces(text, a)
                  \* first character of the group: after the white space, or the
                  \* last white-space character when nothing follows it
                  g == IF b <= Len(text) THEN b ELSE b - 1
                  ends == {e \in (g + 1)..Len(text) : CharAt(text, e) = "."}
                  stop == IF ends = {} THEN Len(text) + 1
                          ELSE CHOOSE e \in ends : \A f \in ends : e <= f
              IN  IF b > a /\ (b <= Len(text) \/ b - a >= 2)
                  THEN SubSeq(text, g, stop - 1)
                  ELSE VerifySearch(kw, text, i + 1)
         ELSE VerifySearch(kw, text, i + 1)

\* the first verify pattern, in list order, that is found in the lowered action
RECURSIVE FirstVerify(_, _)
FirstVerify(k, text) ==
    IF k > Len(verify_keywords) THEN ""
    ELSE LET g == VerifySearch(verify_keywords[k], text, 1)
         IN  IF g # None THEN strip(g) ELSE FirstVerify(k + 1, text)

ExpectedResult(full_action) ==
    LET text == lower(full_action)
    IN  IF \E k \in DOMAIN verify_keywords : In(verify_keywords[k], text)
        THEN FirstVerify(1, text)
        ELSE ""

\* current_step = {}
NoStep == [step_number |-> "", action |-> "", expected_result |-> ""]

\* the while loop over the lines
RECURSIVE ParseStepLoop(_, _, _, _, _)
ParseStepLoop(lines, i, in_test_steps, current_step, steps) ==
    IF i > Len(lines)
    THEN IF current_step.action # "" THEN Append(steps, current_step) ELSE steps
    ELSE LET line == strip(lines[i])
         IN  IF In("Test_steps:", line)
             THEN ParseStepLoop(lines, i + 1, TRUE, current_step, steps)
             ELSE IF ~in_test_steps \/ line = ""
             THEN ParseStepLoop(lines, i + 1, in_test_steps, current_step, steps)
             ELSE LET step_match == StepMatch(line)
                  IN  IF step_match.matched
                      THEN LET saved == IF current_step.action # ""
                                        THEN Append(steps, current_step) ELSE steps
                               first == IF step_match.step_content # ""
                                        THEN <<step_match.step_content>> ELSE <<>>
                               ahead == CollectStepLines(lines, i + 1, 0, first)
                               full_action == strip(join(" ", ahead[2]))
                           IN  ParseStepLoop(lines, ahead[1], in_test_steps,
                                   [step_number |-> step_match.step_number,
                                    action |-> full_action,
                                    expected_result |-> ExpectedResult(full_action)],
                                   saved)
                      ELSE ParseStepLoop(lines, i + 1, in_test_steps, current_step, steps)

_parse_steps(content) == ParseStepLoop(split_lines(content), 1, FALSE, NoStep, <<>>)

(***************************************************************************)
(* TestCaseParser.parse_from_file                                          *)
(***************************************************************************)
_extract_customer_type(filename) == IF In("RESI", upper(filename)) THEN "RESI" ELSE "BUSI"

_extract_scenario_type(filename) == IF In("cos", lower(filename)) THEN "cos" ELSE "install"

\* the flag without the default by scenario type
_extract_truck_roll_type_with(filename) ==
    IF AnyIn({"no truckroll", "no truck roll"}, lower(filename)) THEN "No" ELSE "With"

_extract_truck_roll_type(filename) ==
    LET filename_lower == lower(filename)
    IN  IF AnyIn({"no truckroll", "no truck roll"}, filename_lower) THEN "No"
        ELSE IF AnyIn({"with truckroll", "with truck roll", "w truck roll"}, filename_lower)
        THEN "With"
        ELSE IF In("cos", filename_lower) THEN "No"
        ELSE "With"

\* TestCase(...): padding counts further characters of the content that hold
\* no word any search looks for, so that len(content) is Len(content) + padding
TestCase(id, title, customer_type, customer_status, scenario_type, truck_roll_type, content, padding, steps, is_generated, template_sources) ==
    [id |-> id, title |-> title, customer_type |-> customer_type,
     customer_status |-> customer_status, scenario_type |-> scenario_type,
     truck_roll_type |-> truck_roll_type, content |-> content, padding |-> padding,
     steps |-> steps, is_generated |-> is_generated,
     template_sources |-> template_sources]

\* Optional[TestCase] = None
NoTestCase == TestCase("", "", "", "", "", "", "", 0, <<>>, FALSE, <<>>)

\* parse_from_file on a readable file: the one TestCase it returns
parse_from_file(filename_stem, content) ==
    LET scenario_type == _extract_scenario_type(filename_stem)
    IN  TestCase("TC_" \o filename_stem,
                 strip(ReplaceChar(ReplaceChar(filename_stem, "_", " "), "-", " ")),
                 _extract_customer_type(filename_stem),
                 IF scenario_type = "cos" THEN "existing" ELSE "new",
                 scenario_type,
                 _extract_truck_roll_type(filename_stem),
                 content, 0, _parse_steps(content), FALSE, <<>>)

(***************************************************************************)
(* GeneratedTestCase.to_file_format                                        *)
(***************************************************************************)
\* TestCaseStep(step_number=..., content=...): step_number is validated as an int
TestCaseStep(step_number, content) ==
    [step_number |-> ParseInt(step_number), content |-> content]

RECURSIVE StepsFormat(_)
StepsFormat(test_steps) ==
    IF test_steps = <<>> THEN ""
    ELSE ToString(Head(test_steps).step_number) \o ".\n"
         \o Head(test_steps).content \o "\n"
         \o StepsFormat(Tail(test_steps))

to_file_format(testcase_name, test_steps) ==
    "Testcase_name: " \o testcase_name \o "\n" \o "Test_steps:\n" \o StepsFormat(test_steps)

(***************************************************************************)
(* TestCaseRAGContext.get_combination_intelligence: detected_combination   *)
(***************************************************************************)
detected_combination(user_story) ==
    LET story_lower == lower(user_story)
    IN  IF AnyIn({"plus", "secure", "premium", "enhanced"}, story_lower) THEN "eero_plus"
        ELSE IF AnyIn({"multiple", "additional", "mesh", "more than one"}, story_lower)
        THEN "multiple_devices"
        ELSE "base_eero"

(***************************************************************************)
(* GenerationAgent._get_correct_service_code                               *)
(***************************************************************************)
_get_correct_service_code(requirement) ==
    LET eero_type == GetAttr(requirement, "eero_type", "eero")
        combination_id == requirement.combination_id
    IN  IF requirement.customer_type = "RESI"
        THEN IF In("plus", eero_type) \/ In("premium", eero_type) THEN "HE009"
             ELSE IF In("secure", eero_type) THEN "HE015"
             ELSE "HE008"
        ELSE IF requirement.scenario_type = "cos"
        THEN IF combination_id \in {29, 30, 31} \/ In("remove", eero_type) THEN "BHSY5"
             ELSE IF In("additional", eero_type) THEN "BHSY6"
             ELSE "BHSY5"
        ELSE IF In("plus", eero_type) THEN "BHSY2"
             ELSE IF In("additional", eero_type) THEN "BHSY3"
             ELSE "BHSY1"

(***************************************************************************)
(* GenerationAgent._find_best_template_with_rag                            *)
(***************************************************************************)
\* len(tc.content)
ContentLength(tc) == Len(tc.content) + tc.padding

\* the score of one template in the loop over self.test_cases
TemplateScore(tc, requirement, combination_type, used_templates) ==
    LET tc_content_lower == lower(tc.content)
        basic == (IF tc.customer_type = requirement.customer_type THEN 15 ELSE 0)
               + (IF tc.scenario_type = requirement.scenario_type THEN 20 ELSE 0)
               + (IF tc.truck_roll_type = requirement.truck_roll_type THEN 5 ELSE 0)
        relevance ==
            IF combination_type = "eero_plus"
               /\ AnyIn({"plus", "premium", "secure"}, tc_content_lower) THEN 40
            ELSE IF combination_type = "multiple_devices"
               /\ AnyIn({"multiple", "additional", "mesh"}, tc_content_lower) THEN 40
            ELSE IF combination_type = "base_eero"
               /\ ~AnyIn({"plus", "premium", "multiple"}, tc_content_lower) THEN 30
            ELSE IF In("eero", tc_content_lower) THEN 20
            ELSE 0
        quality == (IF Len(tc.steps) > 8 THEN 10 ELSE 0)
                 + (IF ContentLength(tc) > 3000 THEN 10 ELSE 0)
        penalty == IF tc.id \in used_templates
                   THEN Min(30, Cardinality(used_templates) * 5) ELSE 0
        variety == IF In(_get_correct_service_code(requirement), tc.content) THEN 5 ELSE 0
    IN  basic + relevance + quality - penalty + variety

\* scored_templates.sort(key=lambda x: x[0], reverse=True): stable
RECURSIVE InsertByScore(_, _)
InsertByScore(x, s) ==
    IF s = <<>> THEN <<x>>
    ELSE IF x[1] > Head(s)[1] THEN <<x>> \o s
    ELSE <<Head(s)>> \o InsertByScore(x, Tail(s))

\* the list left in the order of the store
SortByScore_unsorted(list) == list

RECURSIVE SortByScore(_)
SortByScore(list) ==
    IF list = <<>> THEN <<>>
    ELSE InsertByScore(list[Len(list)], SortByScore(SubSeq(list, 1, Len(list) - 1)))

\* [x for x in list if test]: the indices of the templates that are not generated
RECURSIVE NotGeneratedFrom(_, _)
NotGeneratedFrom(test_cases, i) ==
    IF i > Len(test_cases) THEN <<>>
    ELSE (IF test_cases[i].is_generated THEN <<>> ELSE <<test_cases[i]>>)
         \o NotGeneratedFrom(test_cases, i + 1)

ScoredTemplates(test_cases, used_templates, requirement, user_story) ==
    LET combination_type == detected_combination(user_story)
        candidates == NotGeneratedFrom(test_cases, 1)
    IN  SortByScore([k \in DOMAIN candidates |->
                       <<TemplateScore(candidates[k], requirement, combination_type,
                                       used_templates),
                         candidates[k]>>])

\* One call, up to the point where the used set is trimmed: the template
\* returned (NoTestCase for None) and the used set after the add
_find_best_template_with_rag(test_cases, used_templates, requirement, user_story) ==
    LET scored_templates == ScoredTemplates(test_cases, used_templates, requirement, user_story)
        unused == {k \in DOMAIN scored_templates : scored_templates[k][2].id \notin used_templates}
    IN  IF scored_templates = <<>>
        THEN [template |-> NoTestCase, used |-> used_templates]
        ELSE IF unused # {}
        THEN LET first == CHOOSE k \in unused : \A m \in unused : k <= m
             IN  [template |-> scored_templates[first][2],
                  used |-> used_templates \cup {scored_templates[first][2].id}]
        ELSE LET best_template == scored_templates[1][2]
                 cleared == IF Cardinality(used_templates) >= Len(scored_templates)
                            THEN {} ELSE used_templates
             IN  [template |-> best_template, used |-> cleared \cup {best_template.id}]

\* if len(self._used_templates) > 5: remove next(iter(self._used_templates)).
\* The iteration order of a set of strings is not fixed: any member may go.
TrimUsed(used_templates) ==
    IF Cardinality(used_templates) > 5
    THEN {used_templates \ {oldest_template} : oldest_template \in used_templates}
    ELSE {used_templates}

(***************************************************************************)
(* GenerationAgent._parse_steps_comprehensive                              *)
(***************************************************************************)
\* s[i:].startswith(prefix), i counted from 1
StartsAt(s, i, prefix) ==
    i + Len(prefix) - 1 <= Len(s) /\ SubSeq(s, i, i + Len(prefix) - 1) = prefix

\* \s*(.+) from position q on: the group, white space skipped but for the
\* one character (.+) needs; None when nothing is left at q
RestAfterSpaces(line, q) ==
    IF q > Len(line) THEN None
    ELSE SubSeq(line, Min(SkipSpaces(line, q), Len(line)), Len(line))

\* r'^Step\s*(\d+):\s*(.+)'
MatchStepColon(line) ==
    LET b == SkipSpaces(line, 5)
        d == SkipDigits(line, b)
    IN  IF StartsAt(line, 1, "Step") /\ d > b /\ StartsAt(line, d, ":") /\ d < Len(line)
        THEN [matched |-> TRUE, step_number |-> SubSeq(line, b, d - 1),
              step_content |-> RestAfterSpaces(line, d + 1)]
        ELSE NoMatch

\* r'^(\d+)\)\s*(.+)'
MatchNumberParen(line) ==
    LET d == SkipDigits(line, 1)
    IN  IF d > 1 /\ StartsAt(line, d, ")") /\ d < Len(line)
        THEN [matched |-> TRUE, step_number |-> SubSeq(line, 1, d - 1),
              step_content |-> RestAfterSpaces(line, d + 1)]
        ELSE NoMatch

\* r'^\*\*Step\s*(\d+)\*\*:?\s*(.+)': the optional colon is given back when
\* nothing follows it
MatchBoldStep(line) ==
    LET b == SkipSpaces(line, 7)
        d == SkipDigits(line, b)
        q == d + 2
    IN  IF StartsAt(line, 1, "**Step") /\ d > b /\ StartsAt(line, d, "**") /\ q <= Len(line)
        THEN [matched |-> TRUE, step_number |-> SubSeq(line, b, d - 1),
              step_content |-> IF StartsAt(line, q, ":") /\ q < Len(line)
                               THEN RestAfterSpaces(line, q + 1)
                               ELSE RestAfterSpaces(line, q)]
        ELSE NoMatch

\* r'^\*\*(\d+)\.\s*(.+?)\*\*': the shortest text that is closed by '**'
MatchBoldNumber(line) ==
    LET d == SkipDigits(line, 3)
        c == SkipSpaces(line, d + 1)
        closes == {e \in (c + 1)..Len(line) : StartsAt(line, e, "**")}
    IN  IF StartsAt(line, 1, "**") /\ d > 3 /\ StartsAt(line, d, ".")
        THEN IF closes # {}
             THEN [matched |-> TRUE, step_number |-> SubSeq(line, 3, d - 1),
                   step_content |->
                       SubSeq(line, c, (CHOOSE e \in closes : \A f \in closes : e <= f) - 1)]
             ELSE IF c > d + 1 /\ StartsAt(line, c, "**")
             THEN [matched |-> TRUE, step_number |-> SubSeq(line, 3, d - 1),
                   step_content |-> SubSeq(line, c - 1, c - 1)]
             ELSE NoMatch
        ELSE NoMatch

\* r'^##\s*Step\s*(\d+)[:.]?\s*(.*)'
MatchHeadingStep(line) ==
    LET a == SkipSpaces(line, 3)
        b == SkipSpaces(line, a + 4)
        d == SkipDigits(line, b)
        q == IF StartsAt(line, d, ":") \/ StartsAt(line, d, ".") THEN d + 1 ELSE d
    IN  IF StartsAt(line, 1, "##") /\ StartsAt(line, a, "Step") /\ d > b
        THEN [matched |-> TRUE, step_number |-> SubSeq(line, b, d - 1),
              step_content |-> SubSeq(line, SkipSpaces(line, q), Len(line))]
        ELSE NoMatch

\* the eight step_patterns, in list order
StepMatchComprehensive(line) ==
    IF StepMatch(line).matched THEN StepMatch(line)
    ELSE IF MatchStepColon(line).matched THEN MatchStepColon(line)
    ELSE IF MatchNumberParen(line).matched THEN MatchNumberParen(line)
    ELSE IF MatchBoldStep(line).matched THEN MatchBoldStep(line)
    ELSE IF MatchBoldNumber(line).matched THEN MatchBoldNumber(line)
    ELSE MatchHeadingStep(line)

RECURSIVE CollectStepLinesComprehensive(_, _, _, _)
CollectStepLinesComprehensive(lines, j, collected_lines, step_lines) ==
    IF j > Len(lines) \/ collected_lines >= max_lines_per_step THEN <<j, step_lines>>
    ELSE LET next_line == strip(lines[j])
         IN  IF next_line = ""
             THEN CollectStepLinesComprehensive(lines, j + 1, collected_lines, step_lines)
             ELSE IF StepMatchComprehensive(next_line).matched THEN <<j, step_lines>>
             ELSE CollectStepLinesComprehensive(lines, j + 1, collected_lines + 1,
                                                Append(step_lines, next_line))

\* the while loop over the lines; a step pattern opens the steps section too
RECURSIVE ParseStepLoopComprehensive(_, _, _, _, _)
ParseStepLoopComprehensive(lines, i, in_test_steps, current_step, steps) ==
    IF i > Len(lines)
    THEN IF current_step.action # "" THEN Append(steps, current_step) ELSE steps
    ELSE LET line == strip(lines[i])
             step_match == StepMatchComprehensive(line)
         IN  IF In("test_steps:", lower(line))
             THEN ParseStepLoopComprehensive(lines, i + 1, TRUE, current_step, steps)
             ELSE IF ~(in_test_steps \/ step_match.matched) \/ line = ""
             THEN ParseStepLoopComprehensive(lines, i + 1, in_test_steps, current_step, steps)
             ELSE IF step_match.matched
             THEN LET saved == IF current_step.action # ""
                               THEN Append(steps, current_step) ELSE steps
                      first == IF step_match.step_content # ""
                               THEN <<step_match.step_content>> ELSE <<>>
                      ahead == CollectStepLinesComprehensive(lines, i + 1, 0, first)
                      full_action == strip(join(" ", ahead[2]))
                  IN  ParseStepLoopComprehensive(lines, ahead[1], TRUE,
                          [step_number |-> step_match.step_number,
                           action |-> full_action,
                           expected_result |-> ExpectedResult(full_action)],
                          saved)
             ELSE ParseStepLoopComprehensive(lines, i + 1, TRUE, current_step, steps)

\* steps.sort(key=lambda x: int(x['step_number'])): stable, ascending
RECURSIVE InsertByNumber(_, _)
InsertByNumber(x, s) ==
    IF s = <<>> THEN <<x>>
    ELSE IF ParseInt(x.step_number) < ParseInt(Head(s).step_number) THEN <<x>> \o s
    ELSE <<Head(s)>> \o InsertByNumber(x, Tail(s))

RECURSIVE SortByNumber(_)
SortByNumber(steps) ==
    IF steps = <<>> THEN <<>>
    ELSE InsertByNumber(steps[Len(steps)], SortByNumber(SubSeq(steps, 1, Len(steps) - 1)))

_parse_steps_comprehensive(content) ==
    SortByNumber(ParseStepLoopComprehensive(split_lines(content), 1, FALSE, NoStep, <<>>))

(***************************************************************************)
(* GenerationAgent._parse_o1_mini_response.  step_count is left out: it is *)
(* read only for the generation_reasoning text, which is not modelled.     *)
(***************************************************************************)
\* str.strip() of a text of several lines: the newline is white space too
IsWhite(c) == IsSpace(c) \/ c = "\n"

RECURSIVE SkipWhite(_, _)
SkipWhite(s, i) ==
    IF i <= Len(s) /\ IsWhite(CharAt(s, i)) THEN SkipWhite(s, i + 1) ELSE i

RECURSIVE rstrip_text(_)
rstrip_text(s) ==
    IF Len(s) > 0 /\ IsWhite(CharAt(s, Len(s))) THEN rstrip_text(SubSeq(s, 1, Len(s) - 1)) ELSE s

strip_text(s) == rstrip_text(SubSeq(s, SkipWhite(s, 1), Len(s)))

\* str.find(sub) from position i on, counted from 1; 0 for -1
Find(s, sub, i) ==
    LET hits == {k \in i..(Len(s) - Len(sub) + 1) : StartsAt(s, k, sub)}
    IN  IF hits = {} THEN 0 ELSE CHOOSE k \in hits : \A m \in hits : k <= m

\* result = {}
NoFields ==
    [testcase_id |-> None, testcase_name |-> None, customer_type |-> None,
     customer_status |-> None, scenario_type |-> None, truck_roll_type |-> None,
     complete_steps |-> None]

field_keys == {"testcase_id", "testcase_name", "customer_type", "customer_status",
               "scenario_type", "truck_roll_type"}

\* the loop over the lines: key: value, until the complete_steps line
RECURSIVE ParseFieldLines(_, _, _, _)
ParseFieldLines(response_text, lines, i, result) ==
    IF i > Len(lines) THEN result
    ELSE LET line == strip(lines[i])
             colon == Find(line, ":", 1)
             key == lower(strip(SubSeq(line, 1, colon - 1)))
             value == strip(SubSeq(line, colon + 1, Len(line)))
         IN  IF colon = 0 THEN ParseFieldLines(response_text, lines, i + 1, result)
             ELSE IF key \in field_keys
             THEN ParseFieldLines(response_text, lines, i + 1, [result EXCEPT ![key] = value])
             ELSE IF key = "complete_steps"
             THEN LET complete_steps_index == Find(response_text, "complete_steps:", 1)
                  IN  IF complete_steps_index # 0
                      THEN [result EXCEPT !.complete_steps =
                               strip_text(SubSeq(response_text,
                                                 complete_steps_index + Len("complete_steps:"),
                                                 Len(response_text)))]
                      ELSE result
             ELSE ParseFieldLines(response_text, lines, i + 1, result)

\* re.search(marker + r'\s*\n(.*)', text, re.DOTALL | re.IGNORECASE): group 1
\* stripped, or None.  marker is given in lower case.
SearchSection(marker, text, i) ==
    LET hits == {k \in i..(Len(text) - Len(marker) + 1) :
                    /\ lower(SubSeq(text, k, k + Len(marker) - 1)) = marker
                    /\ \E n \in (k + Len(marker))..(SkipWhite(text, k + Len(marker)) - 1) :
                          CharAt(text, n) = "\n"}
        first == CHOOSE k \in hits : \A m \in hits : k <= m
    IN  IF hits = {} THEN None
        ELSE strip_text(SubSeq(text, SkipWhite(text, first + Len(marker)), Len(text)))

\* re.search(r'1\.\s*(.+)', text, re.DOTALL): group 1 stripped, or None
SearchFirstStep(text) ==
    LET first == Find(text, "1.", 1)
    IN  IF first # 0 /\ first + 2 <= Len(text)
        THEN strip_text(SubSeq(text, first + 2, Len(text)))
        ELSE None

test_steps_patterns == <<"test_steps:", "test_steps:", "steps:", "complete_steps:">>

\* for pattern in test_steps_patterns: the first that matches
RECURSIVE SearchPatterns(_, _)
SearchPatterns(k, text) ==
    IF k > Len(test_steps_patterns) THEN SearchFirstStep(text)
    ELSE LET found == SearchSection(test_steps_patterns[k], text, 1)
         IN  IF found # None THEN found ELSE SearchPatterns(k + 1, text)

_parse_o1_mini_response(response_text) ==
    LET result == ParseFieldLines(response_text, split_lines(response_text), 1, NoFields)
        searched == IF result.complete_steps \in {None, ""}
                    THEN [result EXCEPT !.complete_steps = SearchPatterns(1, response_text)]
                    ELSE result
        first_step == Find(response_text, "1.", 1)
    IN  IF searched.complete_steps \in {None, ""} /\ first_step # 0
        THEN [searched EXCEPT !.complete_steps =
                 strip_text(SubSeq(response_text, first_step, Len(response_text)))]
        ELSE searched

\* dict.get(key, default)
FieldOr(generated_content, key, default) ==
    IF generated_content[key] = None THEN default ELSE generated_content[key]

(***************************************************************************)
(* GenerationAgent._validate_generated_quality                             *)
(***************************************************************************)
domain_terms == {"acsr", "customer", "eero", "order", "service"}

\* a check that only asks for steps
_validate_generated_quality_nonempty(generated_steps, expected_count) ==
    generated_steps # <<>>

_validate_generated_quality(generated_steps, expected_count) ==
    LET step_count == Len(generated_steps)
        empty_steps == {k \in DOMAIN generated_steps : strip(generated_steps[k].action) = ""}
        short_steps == {k \in DOMAIN generated_steps : Len(generated_steps[k].action) < 10}
        generated_content ==
            lower(join(" ", [k \in DOMAIN generated_steps |-> generated_steps[k].action]))
        matching_terms == {term \in domain_terms : In(term, generated_content)}
    IN  /\ generated_steps # <<>>
        /\ step_count = expected_count
        /\ empty_steps = {}
        \* len(short_steps) > len(generated_steps) * 0.3
        /\ ~(10 * Cardinality(short_steps) > 3 * step_count)
        /\ \A k \in DOMAIN generated_steps : ParseInt(generated_steps[k].step_number) = k
        /\ Cardinality(matching_terms) >= 3

(***************************************************************************)
(* GenerationAgent._generate_unique_id.  datetime.now() and uuid4() are    *)
(* inputs of the environment, passed in as timestamp and unique_suffix.    *)
(***************************************************************************)
\* f"{counter:03d}"
Pad3(counter) ==
    IF counter < 10 THEN "00" \o ToString(counter)
    ELSE IF counter < 100 THEN "0" \o ToString(counter)
    ELSE ToString(counter)

UniqueIdText(customer_type, scenario_type, service_code, timestamp, counter, unique_suffix) ==
    "TC_GEN_" \o customer_type \o "_" \o scenario_type \o "_" \o service_code \o "_"
        \o timestamp \o "_" \o Pad3(counter) \o "_" \o unique_suffix

\* while unique_id in self._generated_ids: the counter after the loop
RECURSIVE FreeCounter(_, _, _, _, _, _, _)
FreeCounter(generated_ids, counter, customer_type, scenario_type, service_code, timestamp, unique_suffix) ==
    IF UniqueIdText(customer_type, scenario_type, service_code, timestamp, counter,
                    unique_suffix) \in generated_ids
    THEN FreeCounter(generated_ids, counter + 1, customer_type, scenario_type, service_code,
                     timestamp, unique_suffix)
    ELSE counter

\* an id built without the counter moving on
_generate_unique_id_same_counter(generated_ids, id_counter, customer_type, scenario_type, service_code, timestamp, unique_suffix) ==
    [unique_id |-> UniqueIdText(customer_type, scenario_type, service_code, timestamp,
                                1, unique_suffix),
     generated_ids |-> generated_ids,
     id_counter |-> id_counter]

\* the id returned, and _generated_ids and _id_counter after the call
_generate_unique_id(generated_ids, id_counter, customer_type, scenario_type, service_code, timestamp, unique_suffix) ==
    LET counter == FreeCounter(generated_ids, id_counter, customer_type, scenario_type,
                               service_code, timestamp, unique_suffix)
        unique_id == UniqueIdText(customer_type, scenario_type, service_code, timestamp,
                                  counter, unique_suffix)
    IN  [unique_id |-> unique_id,
         generated_ids |-> generated_ids \cup {unique_id},
         id_counter |-> counter + 1]

(***************************************************************************)
(* GenerationAgent.generate_test_case, after the template is chosen: the   *)
(* first LLM call, the quality check, the single recovery call.            *)
(* A reply is [kind |-> "error"] when the call raises and                  *)
(* [kind |-> "ok", content |-> text] when it answers.                      *)
(***************************************************************************)
\* a rejection that still passes on a test case, without fields and steps
Rejected_with_default(reason, llm_calls) ==
    [accepted |-> TRUE, reason |-> reason, llm_calls |-> llm_calls,
     generated_content |-> NoFields, generated_steps |-> <<>>]

\* `return None` of generate_test_case
Rejected(reason, llm_calls) ==
    [accepted |-> FALSE, reason |-> reason, llm_calls |-> llm_calls,
     generated_content |-> NoFields, generated_steps |-> <<>>]

Accepted(reason, llm_calls, generated_content, generated_steps) ==
    [accepted |-> TRUE, reason |-> reason, llm_calls |-> llm_calls,
     generated_content |-> generated_content, generated_steps |-> generated_steps]

\* the re-validation of the recovered steps
RecoveryValidated(template, generated_content, recovered_content, recovered_steps) ==
    IF _validate_generated_quality(recovered_steps, Len(template.steps))
    THEN Accepted("recovered", 2,
                  [generated_content EXCEPT !.complete_steps = recovered_content],
                  recovered_steps)
    ELSE Rejected("recovery invalid", 2)

\* a recovery that asks the LLM once more when its call raises
RecoveryOutcome_asked_again(template, generated_content, recovery_reply) ==
    IF recovery_reply.kind = "error" THEN Rejected("recovery call failed", 3)
    ELSE LET recovered_content == strip_text(recovery_reply.content)
         IN  IF recovered_content = "" THEN Rejected("recovery empty", 2)
             ELSE RecoveryValidated(template, generated_content, recovered_content,
                                    _parse_steps_comprehensive(recovered_content))

\* _force_complete_step_recovery and the re-validation of its answer
RecoveryOutcome(template, generated_content, recovery_reply) ==
    IF recovery_reply.kind = "error" THEN Rejected("recovery call failed", 2)
    ELSE LET recovered_content == strip_text(recovery_reply.content)
         IN  IF recovered_content = "" THEN Rejected("recovery empty", 2)
             ELSE RecoveryValidated(template, generated_content, recovered_content,
                                    _parse_steps_comprehensive(recovered_content))

\* the quality check of the generated steps, and the recovery when it fails
GenerationValidated(template, generated_content, generated_steps, recovery_reply) ==
    IF _validate_generated_quality(generated_steps, Len(template.steps))
    THEN Accepted("generated", 1, generated_content, generated_steps)
    ELSE RecoveryOutcome(template, generated_content, recovery_reply)

\* `if not generated_content or not generated_content.get('complete_steps')`
GenerationParsed(template, generated_content, recovery_reply) ==
    IF generated_content.complete_steps \in {None, ""}
    THEN Rejected("empty content", 1)
    ELSE GenerationValidated(template, generated_content,
                             _parse_steps_comprehensive(generated_content.complete_steps),
                             recovery_reply)

GenerationOutcome(template, reply, recovery_reply) ==
    IF reply.kind = "error" THEN Rejected("generation call failed", 1)
    ELSE GenerationParsed(template, _parse_o1_mini_response(reply.content), recovery_reply)

\* TestCase(id=unique_id, ..., is_generated=True, template_sources=[template.id])
NewTestCase(unique_id, requirement, template, outcome) ==
    LET generated_content == outcome.generated_content
        customer_status == GetAttr(requirement, "customer_status",
                               IF requirement.scenario_type = "install" THEN "new"
                               ELSE "existing")
    IN  TestCase(unique_id,
                 FieldOr(generated_content, "testcase_name",
                         "Generated " \o requirement.customer_type \o " "
                             \o requirement.scenario_type \o " test case"),
                 FieldOr(generated_content, "customer_type", requirement.customer_type),
                 FieldOr(generated_content, "customer_status", customer_status),
                 FieldOr(generated_content, "scenario_type", requirement.scenario_type),
                 FieldOr(generated_content, "truck_roll_type", requirement.truck_roll_type),
                 "Testcase_id: " \o unique_id \o "\nTestcase_name: "
                     \o FieldOr(generated_content, "testcase_name", "Generated Test Case")
                     \o "\nTest_steps:\n" \o generated_content.complete_steps,
                 0, outcome.generated_steps, TRUE, <<template.id>>)

(***************************************************************************)
(* RetrievalAgent.find_test_cases                                          *)
(***************************************************************************)
\* matching_cases
MatchingCases(test_cases, requirement) ==
    SelectSeq(test_cases,
              LAMBDA tc : /\ tc.customer_type = requirement.customer_type
                          /\ tc.scenario_type = requirement.scenario_type
                          /\ tc.truck_roll_type = requirement.truck_roll_type
                          /\ ~tc.is_generated)

RECURSIVE SumActionLengths(_)
SumActionLengths(steps) ==
    IF steps = <<>> THEN 0 ELSE Len(Head(steps).action) + SumActionLengths(Tail(steps))

workflow_indicators == {"acsr", "customer central", "order", "verification", "expected result"}

\* the score of one template in _score_template_completeness
CompletenessScore(tc) ==
    LET content_lower == lower(tc.content)
        step_count == Len(tc.steps)
        total_length == SumActionLengths(tc.steps)
        divisor == Max(1, step_count)
        steps_with_results ==
            Cardinality({k \in DOMAIN tc.steps : strip(tc.steps[k].expected_result) # ""})
        indicator_score ==
            3 * Cardinality({indicator \in workflow_indicators : In(indicator, content_lower)})
    IN  (IF step_count >= 12 THEN 50
         ELSE IF step_count >= 10 THEN 45
         ELSE IF step_count >= 8 THEN 40
         ELSE IF step_count >= 6 THEN 30
         ELSE 15)
        \* avg_step_length = total_length / divisor
      + (IF total_length > 100 * divisor THEN 20
         ELSE IF total_length > 60 * divisor THEN 15
         ELSE IF total_length > 30 * divisor THEN 10
         ELSE 5)
        \* int(result_coverage * 15)
      + ((15 * steps_with_results) \div divisor)
      + Min(15, indicator_score)

_score_template_completeness(templates) ==
    SortByScore([k \in DOMAIN templates |-> <<CompletenessScore(templates[k]), templates[k]>>])

\* sorted(matching_cases, key=lambda tc: len(tc.steps), reverse=True)
SortByStepCount(templates) ==
    LET keyed == SortByScore([k \in DOMAIN templates |->
                                 <<Len(templates[k].steps), templates[k]>>])
    IN  [k \in DOMAIN keyed |-> keyed[k][2]]

\* complete_templates
CompleteTemplates(matching_cases) ==
    LET complete_templates == SelectSeq(matching_cases, LAMBDA tc : Len(tc.steps) >= 8)
    IN  IF complete_templates = <<>> THEN SortByStepCount(matching_cases)
        ELSE complete_templates

\* selected_ids: the stripped lines of the answer that start with 'TC_'
SelectedIds(content) ==
    LET lines == split_lines(strip_text(content))
        stripped == [k \in DOMAIN lines |-> strip(lines[k])]
    IN  SelectSeq(stripped, LAMBDA line : StartsAt(line, 1, "TC_"))

\* for tc_id in selected_ids: the first scored template with that id that is
\* not selected yet
RECURSIVE SelectedCases(_, _, _)
SelectedCases(selected_ids, scored, selected_cases) ==
    IF selected_ids = <<>> THEN selected_cases
    ELSE LET hits == {k \in DOMAIN scored :
                        /\ scored[k][2].id = Head(selected_ids)
                        /\ \A m \in DOMAIN selected_cases : selected_cases[m] # scored[k][2]}
         IN  SelectedCases(Tail(selected_ids), scored,
                 IF hits = {} THEN selected_cases
                 ELSE Append(selected_cases,
                             scored[CHOOSE k \in hits : \A m \in hits : k <= m][2]))

\* every scored template, whatever n
TopCases_all(scored, n) == [k \in DOMAIN scored |-> scored[k][2]]

\* [tc for _, tc in scored[:n]]
TopCases(scored, n) ==
    LET top == PySlice(scored, n)
    IN  [k \in DOMAIN top |-> top[k][2]]

\* The cases returned, whether the LLM was asked, and whether its answer was used
find_test_cases(test_cases, requirement, reply) ==
    LET matching_cases == MatchingCases(test_cases, requirement)
        complete_scored_cases == _score_template_completeness(CompleteTemplates(matching_cases))
        selected_cases == SelectedCases(SelectedIds(reply.content), complete_scored_cases, <<>>)
    IN  IF matching_cases = <<>>
        THEN [cases |-> <<>>, llm_called |-> FALSE, path |-> "no match"]
        ELSE IF Len(complete_scored_cases) <= requirement.count_needed
        THEN [cases |-> TopCases(complete_scored_cases, Len(complete_scored_cases)),
              llm_called |-> FALSE, path |-> "all"]
        ELSE IF reply.kind = "error"
        THEN [cases |-> TopCases(complete_scored_cases, requirement.count_needed),
              llm_called |-> TRUE, path |-> "llm exception"]
        ELSE IF Len(selected_cases) >= requirement.count_needed
        THEN [cases |-> PySlice(selected_cases, requirement.count_needed),
              llm_called |-> TRUE, path |-> "llm selection"]
        ELSE [cases |-> TopCases(complete_scored_cases, requirement.count_needed),
              llm_called |-> TRUE, path |-> "llm too short"]

(***************************************************************************)
(* What the calls of one run returned last                                 *)
(***************************************************************************)
NoSelection ==
    [requirement |-> TestCaseRequirement("", "", "", 1, "medium"), user_story |-> "",
     used_before |-> {}, template |-> NoTestCase]

NoRetrieval == [cases |-> <<>>, llm_called |-> FALSE, path |-> "none"]

\* no answer of the LLM: the call was not made
NoReply == [kind |-> "none", content |-> ""]

NoGeneration ==
    [reason |-> "none", llm_calls |-> 0, reply |-> NoReply, test_case |-> NoTestCase]

NoResult == [status |-> "none", test_cases |-> <<>>, error |-> ""]

(***************************************************************************)
(* State                                                                   *)
(***************************************************************************)
VARIABLES
    user_story,               \* the request text
    additional_requirements,  \* the optional second text
    number_of_test_cases,     \* the explicit count, NoneInt for None
    pc,                       \* position of the run
    story_analysis,           \* _analyze_user_story of the detector call
    requested_count,          \* the count the detector worked with
    sorted_matches,           \* the detector's sorted list before the cut
    detected_combinations,    \* what detect_combinations_from_story returned
    requirements,             \* what analyze_requirements returned
    unadjusted_requirements,  \* that list before _adjust_requirements_count
    llm_failures,             \* stages whose LLM call raised in this run
    failed_operations,        \* operations of this run that got an unusable LLM answer
    test_cases,               \* self.test_cases, shared by retriever and generator
    _used_templates,          \* GenerationAgent._used_templates
    _generated_ids,           \* GenerationAgent._generated_ids
    _id_counter,              \* GenerationAgent._id_counter
    selected,                 \* the last call of _find_best_template_with_rag
    req_index,                \* the requirement the orchestrator's loop is at
    missing_count,            \* generations still to attempt for that requirement
    all_results,              \* the orchestrator's all_results
    retrieved_test_case_ids,  \* ids delivered by retrieval so far
    total_retrieved,
    total_generated,
    retrieved,                \* what the last find_test_cases call returned
    generated,                \* what the last generate_test_case call returned
    result,                   \* what get_test_cases_from_user_story returned
    template_file,            \* a file of the test-case directory: stem and content
    loaded,                   \* the TestCase parse_from_file made of it
    file_format,              \* to_file_format of its steps
    reparsed_steps            \* _parse_steps of that text

requestVars == <<user_story, additional_requirements, number_of_test_cases>>
coordVars == <<story_analysis, requested_count, sorted_matches, detected_combinations,
               requirements, unadjusted_requirements>>
parseVars == <<template_file, loaded, file_format, reparsed_steps>>
storeVars == <<test_cases, _used_templates, _generated_ids, _id_counter, selected>>
runVars == <<req_index, missing_count, all_results, retrieved_test_case_ids,
             total_retrieved, total_generated, retrieved, generated, result>>
vars == <<requestVars, pc, coordVars, llm_failures, failed_operations, storeVars, runVars,
          parseVars>>

(***************************************************************************)
(* Requests: a story names at most one order type, one segment and one     *)
(* truck-roll preference, followed by at most MaxWords topic words         *)
(***************************************************************************)
MaxWords == 2
MaxCount == 2

OrderWords == {"", "Install", "upgrade"}
SegmentWords == {"", "home", "Business"}
TruckWords == {"", "no truck", "technician"}
TopicWords == <<
    "bind", "association", "plus", "mesh", "remove", "basic",
    "comprehensive", "critical", "gateway removal" >>

AdditionalTexts == {"", "validation of additional eero devices"}

JoinText(a, b) == IF a = "" THEN b ELSE IF b = "" THEN a ELSE a \o " " \o b

RECURSIVE JoinWords(_, _)
JoinWords(S, i) ==
    IF i > Len(TopicWords) THEN ""
    ELSE JoinText(IF i \in S THEN TopicWords[i] ELSE "", JoinWords(S, i + 1))

Topics(max_words) ==
    {JoinWords(S, 1) : S \in {T \in SUBSET (1..Len(TopicWords)) : Cardinality(T) <= max_words}}

Stories(max_words) ==
    {JoinText(o, JoinText(g, JoinText(t, w))) :
        o \in OrderWords, g \in SegmentWords, t \in TruckWords, w \in Topics(max_words)}

\* the two requests the scenarios of the specification name
ScenarioStories == {
    "comprehensive full coverage of all eero scenarios",
    "additional eero devices for business" }

\* a count above the number of rules some requests match
ManyCount == 12

Counts == {NoneInt} \cup (0..MaxCount) \cup {ManyCount}

\* what the LLM may answer to the coordination prompt
CoordinatorReplies == {
    [kind |-> "error", lines |-> <<>>],
    [kind |-> "ok", lines |-> <<>>],
    [kind |-> "ok", lines |-> << <<"resi", "Install", "with", "eero", "2", "high">>,
                                 <<"BUSI", "cos", "No", "eero_plus", "1", "MEDIUM">>,
                                 <<"RESI", "install", "With", "EERO", "1", "LOW">> >>],
    [kind |-> "ok", lines |-> << <<"BUSI", "cos", "No", "remove_device_gateway", "0", "HIGH">>,
                                 <<"BUSI", "cos", "No", "eero", "x", "HIGH">>,
                                 <<"RESI", "cos", "No", "eero">> >>] }

(***************************************************************************)
(* CoordinatorAgent.analyze_requirements                                   *)
(***************************************************************************)
\* Python `x or y` on an optional count: None and 0 are falsy
Truthy(n) == n # NoneInt /\ n # 0

AboveThreshold(detected) ==
    Cardinality({i \in DOMAIN detected : fgt(detected[i].match_score, F_0_4)})

\* the requirements as they were built, never adjusted
Adjusted_unchanged(reqs, count) == reqs

\* if number_of_test_cases and len(requirements) != number_of_test_cases: adjust
Adjusted(reqs, count) ==
    IF Truthy(count) /\ Len(reqs) # count
    THEN _adjust_requirements_count(reqs, count)
    ELSE reqs

AnalyzeRequirements ==
    /\ pc = "start"
    /\ \E run \in {DetectorRun(user_story \o " " \o additional_requirements,
                               number_of_test_cases)} :
         /\ story_analysis' = run.story_analysis
         /\ requested_count' = run.requested_count
         /\ sorted_matches' = run.detected_combinations
         /\ detected_combinations' = run.returned
         /\ IF run.returned # <<>>
            THEN \E final_count \in {Min(IF Truthy(number_of_test_cases)
                                         THEN number_of_test_cases
                                         ELSE AboveThreshold(run.returned),
                                         Len(run.returned))} :
                   /\ unadjusted_requirements' =
                          get_combination_requirements(PySlice(run.returned, final_count))
                   /\ requirements' =
                          Adjusted(get_combination_requirements(
                                       PySlice(run.returned, final_count)),
                                   number_of_test_cases)
                   /\ llm_failures' = llm_failures
            ELSE \E fallback_count \in {IF Truthy(number_of_test_cases)
                                        THEN number_of_test_cases
                                        ELSE determine_test_case_count(user_story, NoAnalysis)},
                    reply \in CoordinatorReplies :
                   /\ unadjusted_requirements' = _llm_guided_analysis(reply, fallback_count)
                   /\ requirements' =
                          Adjusted(_llm_guided_analysis(reply, fallback_count),
                                   number_of_test_cases)
                   /\ llm_failures' =
                          IF reply.kind = "error"
                          THEN llm_failures \cup {"coordinator"}
                          ELSE llm_failures
    /\ failed_operations' = IF llm_failures' # llm_failures
                            THEN failed_operations + 1 ELSE failed_operations
    /\ pc' = "analyzed"
    /\ UNCHANGED <<requestVars, parseVars, storeVars, runVars>>

InitCoordinator ==
    /\ story_analysis = NoAnalysis
    /\ requested_count = NoneInt
    /\ sorted_matches = <<>>
    /\ detected_combinations = <<>>
    /\ requirements = <<>>
    /\ unadjusted_requirements = <<>>
    /\ llm_failures = {}

\* a system with the given store, before any request is processed
InitSystem(store) ==
    /\ test_cases = store
    /\ _used_templates = {}
    /\ _generated_ids = {}
    /\ _id_counter = 1
    /\ selected = NoSelection
    /\ failed_operations = 0
    /\ req_index = 1
    /\ missing_count = 0
    /\ all_results = <<>>
    /\ retrieved_test_case_ids = {}
    /\ total_retrieved = 0
    /\ total_generated = 0
    /\ retrieved = NoRetrieval
    /\ generated = NoGeneration
    /\ result = NoResult

InitParser ==
    /\ template_file = [filename_stem |-> "", content |-> ""]
    /\ loaded = NoTestCase
    /\ file_format = ""
    /\ reparsed_steps = <<>>

\* Requirement Detector and Coordinator on every request of the bounded language
InitDetect ==
    /\ user_story \in Stories(MaxWords) \cup ScenarioStories
    /\ additional_requirements \in AdditionalTexts
    /\ number_of_test_cases \in Counts
    /\ InitCoordinator
    /\ InitSystem(<<>>)
    /\ InitParser
    /\ pc = "start"

NextDetect == AnalyzeRequirements

SpecDetect == InitDetect /\ [][NextDetect]_vars

(***************************************************************************)
(* Template Store: a file is parsed, its steps are written back in the     *)
(* file format, and that text is parsed again                              *)
(***************************************************************************)
MaxLines == 3

FileLines == <<
    "Test_steps:", "", "1.", "1. 2.", "2. Verify the order.", "Open ACSR", " 3 . Submit" >>

FilenameStems == {
    "RESI_Install_With Truck Roll", "BUSI-CoS-eero",
    "Busi Install No TruckRoll", "resi_cos_w truck roll",
    "Resi Install eero", "BUSI_CoS_With TruckRoll_No Truck Roll" }

\* the contents of max_lines lines at most
RECURSIVE Contents(_)
Contents(max_lines) ==
    IF max_lines = 0 THEN {""}
    ELSE LET shorter == Contents(max_lines - 1)
         IN  shorter
             \cup {FileLines[k] : k \in DOMAIN FileLines}
             \cup {FileLines[k] \o "\n" \o c : k \in DOMAIN FileLines, c \in shorter \ {""}}
             \cup {FileLines[k] \o "\n" : k \in DOMAIN FileLines}

ParseFromFile ==
    /\ pc = "file"
    /\ loaded' = parse_from_file(template_file.filename_stem, template_file.content)
    /\ pc' = "loaded"
    /\ UNCHANGED <<requestVars, coordVars, llm_failures, failed_operations, storeVars, runVars,
                   template_file, file_format,
                   reparsed_steps>>

\* GeneratedTestCase(testcase_name, test_steps).to_file_format(); test_steps has
\* min_items=1
ToFileFormat ==
    /\ pc = "loaded"
    /\ Len(loaded.steps) >= 1
    /\ file_format' =
          to_file_format(loaded.title,
                         [k \in DOMAIN loaded.steps |->
                             TestCaseStep(loaded.steps[k].step_number, loaded.steps[k].action)])
    /\ pc' = "formatted"
    /\ UNCHANGED <<requestVars, coordVars, llm_failures, failed_operations, storeVars, runVars,
                   template_file, loaded,
                   reparsed_steps>>

ParseFileFormat ==
    /\ pc = "formatted"
    /\ reparsed_steps' = _parse_steps(file_format)
    /\ pc' = "reparsed"
    /\ UNCHANGED <<requestVars, coordVars, llm_failures, failed_operations, storeVars, runVars,
                   template_file, loaded,
                   file_format>>

InitParse ==
    /\ user_story = "" /\ additional_requirements = "" /\ number_of_test_cases = NoneInt
    /\ story_analysis = NoAnalysis
    /\ requested_count = NoneInt
    /\ sorted_matches = <<>>
    /\ detected_combinations = <<>>
    /\ requirements = <<>>
    /\ unadjusted_requirements = <<>>
    /\ llm_failures = {}
    /\ InitSystem(<<>>)
    /\ pc = "file"
    /\ template_file \in [filename_stem : FilenameStems, content : Contents(MaxLines)]
    /\ loaded = NoTestCase
    /\ file_format = ""
    /\ reparsed_steps = <<>>

NextParse == ParseFromFile \/ ToFileFormat \/ ParseFileFormat

SpecParse == InitParse /\ [][NextParse]_vars

(***************************************************************************)
(* The test-case directory: the files the system loads at start.  padding  *)
(* stands for that many further characters of description above the        *)
(* Test_steps: marker, which hold no word any search looks for.            *)
(***************************************************************************)
MaxTemplates == 3

LoadTemplate(filename_stem, content, padding) ==
    [parse_from_file(filename_stem, content) EXCEPT !.padding = padding]

Pool == <<
    LoadTemplate("RESI_Install_With Truck Roll_eero",
        "Testcase_name: eero install\nTest_steps:\n1. Open ACSR customer order\n2. Verify eero service.",
        0),
    LoadTemplate("RESI_CoS_No Truck Roll_plus",
        "Testcase_name: eero plus upgrade\nTest_steps:\n1. Open ACSR customer order\n2. Add eero plus service HE009.",
        3000),
    LoadTemplate("RESI_Install_With Truck Roll_mesh",
        "Testcase_name: mesh install\nTest_steps:\n1. Open ACSR customer order\n2. Add additional eero service\n3. Check mesh.",
        0),
    LoadTemplate("BUSI_CoS_No Truck Roll_eero",
        "Testcase_name: business eero\nTest_steps:\n1. Open ACSR customer order\n2. Add eero service BHSY5\n3. Submit it",
        0),
    LoadTemplate("RESI_Install_draft",
        "Testcase_name: draft\n1. Open ACSR customer order",
        0) >>

\* the directory holds the first files of the pool, or the business file
\* alone, or the draft alone
Stores(max_templates) ==
    {SubSeq(Pool, 1, n) : n \in 0..Min(max_templates, Len(Pool))}
        \cup {<<Pool[4]>>, <<Pool[Len(Pool)]>>}

(***************************************************************************)
(* Template Selector on its own: any sequence of selections on one store   *)
(***************************************************************************)
\* single_req of the orchestrator: the only requirements generate_test_case gets
SingleRequirement(req) ==
    TestCaseRequirement(req.customer_type, req.scenario_type, req.truck_roll_type, 1,
                        req.priority)

SelectorRequirements ==
    {TestCaseRequirement(customer_type, scenario_type, truck_roll_type, 1, "high") :
        customer_type \in {"RESI", "BUSI"}, scenario_type \in {"install", "cos"},
        truck_roll_type \in {"With", "No"}}

SelectorStories == {"Install eero", "upgrade to eero plus", "add mesh devices"}

\* one call of the selector, for a requirement and a story of the given sets
SelectTemplateFor(requirements_, stories) ==
    /\ pc = "select"
    /\ \E requirement \in requirements_, story \in stories :
         \E choice \in {_find_best_template_with_rag(test_cases, _used_templates,
                                                     requirement, story)} :
            /\ selected' = [requirement |-> requirement, user_story |-> story,
                            used_before |-> _used_templates, template |-> choice.template]
            /\ _used_templates' \in TrimUsed(choice.used)
    /\ UNCHANGED <<requestVars, pc, coordVars, llm_failures, failed_operations, test_cases,
                   _generated_ids, _id_counter, runVars, parseVars>>

SelectTemplate == SelectTemplateFor(SelectorRequirements, SelectorStories)

InitSelect ==
    /\ user_story = "" /\ additional_requirements = "" /\ number_of_test_cases = NoneInt
    /\ InitCoordinator
    /\ \E store \in Stores(MaxTemplates) : InitSystem(store)
    /\ InitParser
    /\ pc = "select"

NextSelect == SelectTemplate

SpecSelect == InitSelect /\ [][NextSelect]_vars

(***************************************************************************)
(* Template Selector on a directory of more files than the selector        *)
(* tracks: selections go on for as long as the run asks for them           *)
(***************************************************************************)
LargeStore ==
    Pool \o << LoadTemplate("BUSI_Install_No Truck Roll_eero",
                  "Testcase_name: business install\nTest_steps:\n1. Open ACSR customer order\n2. Add eero service BHSY5.",
                  0) >>

DiversityRequirements ==
    {TestCaseRequirement(customer_type, scenario_type, "With", 1, "high") :
        customer_type \in {"RESI", "BUSI"}, scenario_type \in {"install", "cos"}}

SelectFromLargeStore == SelectTemplateFor(DiversityRequirements, {"Install eero"})

InitDiversity ==
    /\ user_story = "" /\ additional_requirements = "" /\ number_of_test_cases = NoneInt
    /\ InitCoordinator
    /\ InitSystem(LargeStore)
    /\ InitParser
    /\ pc = "select"

NextDiversity == SelectFromLargeStore

SpecDiversity == InitDiversity /\ [][NextDiversity]_vars

(***************************************************************************)
(* MultiAgentRAGSystem.generate_test_cases, called by                      *)
(* IntelligentRAGSystem.get_test_cases_from_user_story: one action per     *)
(* awaited stage                                                           *)
(***************************************************************************)
\* operations of one run that may get an unusable LLM answer
MaxFailures == 1

\* "k. action" for each step, numbered by position
RECURSIVE StepsText(_, _)
StepsText(steps, k) ==
    IF k > Len(steps) THEN ""
    ELSE ToString(k) \o ". " \o steps[k].action
         \o (IF k < Len(steps) THEN "\n" ELSE "") \o StepsText(steps, k + 1)

\* what the LLM may answer to the generation prompt: the call raises, a text
\* without steps, every step numbered from 2 on, the first step only, every
\* step of the template
GenerationReplies(template) == {
    [kind |-> "error", content |-> ""],
    [kind |-> "ok", content |-> "I cannot help with that"],
    [kind |-> "ok", content |-> "testcase_name: Adapted case\ncomplete_steps:\n"
                                    \o StepsText(<<NoStep>> \o template.steps, 2)],
    [kind |-> "ok", content |-> "testcase_name: Adapted case\ncomplete_steps:\n"
                                    \o StepsText(PySlice(template.steps, 1), 1)],
    [kind |-> "ok", content |-> "testcase_name: Adapted case\ncomplete_steps:\n"
                                    \o StepsText(template.steps, 1)] }

\* what it may answer to the recovery prompt
RecoveryReplies(template) == {
    [kind |-> "error", content |-> ""],
    [kind |-> "ok", content |-> " \n"],
    [kind |-> "ok", content |-> StepsText(PySlice(template.steps, 1), 1)],
    [kind |-> "ok", content |-> StepsText(template.steps, 1)] }

\* the ids of the store, last file first
RECURSIVE ReverseIds(_)
ReverseIds(store) ==
    IF store = <<>> THEN ""
    ELSE store[Len(store)].id
         \o (IF Len(store) > 1 THEN "\n" ELSE "")
         \o ReverseIds(SubSeq(store, 1, Len(store) - 1))

\* what it may answer to the selection prompt
SelectionReplies(store) == {
    [kind |-> "error", content |-> ""],
    [kind |-> "ok", content |-> "None of them"],
    [kind |-> "ok", content |-> ReverseIds(store)] }

\* datetime.now() and uuid4() as the environment gives them
Timestamps == {"20250822_101500"}
UniqueSuffixes == {"0a1b2c3d"}

\* the loop over existing_cases that skips the ids delivered before
RECURSIVE UniqueCases(_, _, _, _, _)
UniqueCases(cases, seen_ids, unique_cases, count_needed, break_early) ==
    IF cases = <<>>
    THEN [unique_cases |-> unique_cases, retrieved_test_case_ids |-> seen_ids]
    ELSE IF Head(cases).id \in seen_ids
    THEN UniqueCases(Tail(cases), seen_ids, unique_cases, count_needed, break_early)
    ELSE IF break_early /\ Len(unique_cases) + 1 >= count_needed /\ count_needed <= 2
    THEN [unique_cases |-> Append(unique_cases, Head(cases)),
          retrieved_test_case_ids |-> seen_ids \cup {Head(cases).id}]
    ELSE UniqueCases(Tail(cases), seen_ids \cup {Head(cases).id},
                     Append(unique_cases, Head(cases)), count_needed, break_early)

\* one pass of the loop over the requirements, up to the generation loop
ProcessRequirement ==
    /\ pc = "analyzed"
    /\ req_index <= Len(requirements)
    /\ \E reply \in SelectionReplies(test_cases) :
       \E found \in {find_test_cases(test_cases, requirements[req_index], reply)} :
       \E enough \in {Len(found.cases) >= requirements[req_index].count_needed} :
       \E unique \in {UniqueCases(found.cases, retrieved_test_case_ids, <<>>,
                                  requirements[req_index].count_needed, enough)} :
       \E unusable \in {found.path \in {"llm exception", "llm too short"}} :
          /\ unusable => failed_operations < MaxFailures
          /\ retrieved' = found
          /\ llm_failures' = IF found.path = "llm exception"
                             THEN llm_failures \cup {"retrieval"} ELSE llm_failures
          /\ failed_operations' = IF unusable THEN failed_operations + 1
                                  ELSE failed_operations
          /\ all_results' = all_results \o unique.unique_cases
          /\ retrieved_test_case_ids' = unique.retrieved_test_case_ids
          /\ total_retrieved' = total_retrieved + Len(unique.unique_cases)
          /\ IF enough
             THEN /\ missing_count' = 0
                  /\ req_index' = req_index + 1
                  /\ pc' = "analyzed"
             ELSE /\ missing_count' =
                        requirements[req_index].count_needed - Len(unique.unique_cases)
                  /\ req_index' = req_index
                  /\ pc' = "generating"
    /\ UNCHANGED <<requestVars, coordVars, storeVars, total_generated, generated, result,
                   parseVars>>

\* one pass of the generation loop: generate_test_case(single_req, user_story)
\* and what the orchestrator does with its result
GenerateTestCase ==
    /\ pc = "generating"
    /\ \E single_req \in {SingleRequirement(requirements[req_index])} :
       \E choice \in {_find_best_template_with_rag(test_cases, _used_templates,
                                                   single_req, user_story)} :
          /\ selected' = [requirement |-> single_req, user_story |-> user_story,
                          used_before |-> _used_templates, template |-> choice.template]
          /\ _used_templates' \in TrimUsed(choice.used)
          /\ IF choice.template = NoTestCase
             THEN /\ generated' = [reason |-> "no template", llm_calls |-> 0,
                                   reply |-> NoReply, test_case |-> NoTestCase]
                  /\ UNCHANGED <<llm_failures, failed_operations, test_cases, _generated_ids,
                                 _id_counter, all_results, total_generated>>
             ELSE \E reply \in GenerationReplies(choice.template),
                     recovery_reply \in RecoveryReplies(choice.template),
                     timestamp \in Timestamps, unique_suffix \in UniqueSuffixes :
                  \E outcome \in {GenerationOutcome(choice.template, reply, recovery_reply)} :
                  \E made \in {_generate_unique_id(
                                  _generated_ids, _id_counter,
                                  FieldOr(outcome.generated_content, "customer_type",
                                          single_req.customer_type),
                                  FieldOr(outcome.generated_content, "scenario_type",
                                          single_req.scenario_type),
                                  _get_correct_service_code(single_req),
                                  timestamp, unique_suffix)} :
                  \E new_test_case \in {IF outcome.accepted
                                        THEN NewTestCase(made.unique_id, single_req,
                                                         choice.template, outcome)
                                        ELSE NoTestCase} :
                     /\ outcome.reason # "generated" => failed_operations < MaxFailures
                     /\ failed_operations' = IF outcome.reason # "generated"
                                             THEN failed_operations + 1
                                             ELSE failed_operations
                     /\ llm_failures' =
                           IF outcome.reason = "generation call failed"
                           THEN llm_failures \cup {"generation"}
                           ELSE IF outcome.reason = "recovery call failed"
                           THEN llm_failures \cup {"recovery"}
                           ELSE llm_failures
                     /\ generated' = [reason |-> outcome.reason,
                                      llm_calls |-> outcome.llm_calls,
                                      reply |-> reply, test_case |-> new_test_case]
                     /\ IF outcome.accepted
                        THEN /\ all_results' = Append(all_results, new_test_case)
                             /\ test_cases' = Append(test_cases, new_test_case)
                             /\ total_generated' = total_generated + 1
                             /\ _generated_ids' = made.generated_ids
                             /\ _id_counter' = made.id_counter
                        ELSE UNCHANGED <<all_results, test_cases, total_generated,
                                         _generated_ids, _id_counter>>
    /\ missing_count' = missing_count - 1
    /\ IF missing_count = 1
       THEN req_index' = req_index + 1 /\ pc' = "analyzed"
       ELSE req_index' = req_index /\ pc' = "generating"
    /\ UNCHANGED <<requestVars, coordVars, retrieved_test_case_ids, total_retrieved,
                   retrieved, result, parseVars>>

\* 'System error: ' + str(TypeError) of len(all_results) > None
CountTypeError ==
    "System error: '>' not supported between instances of 'int' and 'NoneType'"

\* Step 3 of generate_test_cases and the return of
\* get_test_cases_from_user_story, whose except turns any exception into a
\* result of status 'failed'
FormatResults ==
    /\ pc = "analyzed"
    /\ req_index > Len(requirements)
    /\ result' =
          IF number_of_test_cases = NoneInt
          THEN [status |-> "failed", test_cases |-> <<>>, error |-> CountTypeError]
          ELSE [status |-> "success",
                test_cases |-> IF Len(all_results) > number_of_test_cases
                               THEN PySlice(all_results, number_of_test_cases)
                               ELSE all_results,
                error |-> ""]
    /\ pc' = "done"
    /\ UNCHANGED <<requestVars, coordVars, llm_failures, failed_operations, storeVars,
                   req_index, missing_count, all_results, retrieved_test_case_ids,
                   total_retrieved, total_generated, retrieved, generated, parseVars>>

PipelineStories == {"Install home", "upgrade home plus", "Business association"}

\* a story with an explicit count; the shortest story with no count, and with
\* the count 0, which sends the Coordinator to its LLM
PipelineRequests ==
    (PipelineStories \X (1..MaxCount)) \cup ({"Install home"} \X {NoneInt, 0})

InitPipeline ==
    /\ \E request \in PipelineRequests :
          /\ user_story = request[1]
          /\ number_of_test_cases = request[2]
    /\ additional_requirements = ""
    /\ InitCoordinator
    /\ \E store \in Stores(MaxTemplates) : InitSystem(store)
    /\ InitParser
    /\ pc = "start"

NextPipeline ==
    \/ AnalyzeRequirements
    \/ ProcessRequirement
    \/ GenerateTestCase
    \/ FormatResults

SpecPipeline == InitPipeline /\ [][NextPipeline]_vars

(***************************************************************************)
(* The builders of requirement lists and _adjust_requirements_count on     *)
(* their own: a list is built by consolidation, from LLM output lines or   *)
(* by the diverse fallback, then adjusted to a target count                *)
(***************************************************************************)
MaxTarget == 4
MaxDetections == 4

\* the lists get_combination_requirements builds from the first detections
ConsolidatedLists ==
    {get_combination_requirements(
         PySlice(SortedMatches(_analyze_user_story(lower(story))), n)) :
        story \in PipelineStories, n \in 1..MaxDetections}

\* further LLM output: a low-priority requirement with a count above 1, and a
\* list without any high-priority requirement
AdjustReplies == {
    [kind |-> "ok", lines |-> << <<"RESI", "cos", "With", "eero", "3", "LOW">>,
                                 <<"BUSI", "install", "No", "eero_plus", "2", "medium">> >>],
    [kind |-> "ok", lines |-> << <<"BUSI", "install", "No", "eero", "1", "medium">>,
                                 <<"RESI", "cos", "No", "eero_plus", "1", "low">> >>] }

ParsedLists ==
    {_parse_diverse_requirements(reply.lines) :
        reply \in {r \in CoordinatorReplies \cup AdjustReplies : r.kind = "ok"}}

\* the fallback for every count up to one full round over the base list and
\* MaxTarget more
FallbackLists ==
    {_create_diverse_fallback(specific_scenarios, count) :
        specific_scenarios \in {<<>>, <<"removal">>},
        count \in 0..(Len(base_combinations_default) + MaxTarget)}

BuildRequirements ==
    /\ pc = "build"
    /\ \E built \in ConsolidatedLists \cup ParsedLists \cup FallbackLists :
          /\ unadjusted_requirements' = built
          /\ requirements' = built
    /\ pc' = "built"
    /\ UNCHANGED <<requestVars, story_analysis, requested_count, sorted_matches,
                   detected_combinations, llm_failures, failed_operations, storeVars,
                   runVars, parseVars>>

\* analyze_requirements only adjusts a list that holds a requirement: the
\* detector's lists are not empty and an empty parse is replaced by the fallback
AdjustRequirementsCount ==
    /\ pc = "built"
    /\ requirements # <<>>
    /\ requirements' = _adjust_requirements_count(requirements, number_of_test_cases)
    /\ pc' = "adjusted"
    /\ UNCHANGED <<requestVars, story_analysis, requested_count, sorted_matches,
                   detected_combinations, unadjusted_requirements, llm_failures,
                   failed_operations, storeVars, runVars, parseVars>>

InitAdjust ==
    /\ user_story = "" /\ additional_requirements = ""
    /\ number_of_test_cases \in 1..MaxTarget
    /\ InitCoordinator
    /\ InitSystem(<<>>)
    /\ InitParser
    /\ pc = "build"

NextAdjust == BuildRequirements \/ AdjustRequirementsCount

SpecAdjust == InitAdjust /\ [][NextAdjust]_vars

(***************************************************************************)
(* Properties of the Requirement Detector and the Coordinator (SpecDetect) *)
(***************************************************************************)
Analyzed == pc = "analyzed"

CriticalIds == {29, 30, 31}

\* the ids of the catalog rules whose score for the stored analysis is above 0.4
PassingIds ==
    {valid_combinations[i].id : i \in
        {k \in DOMAIN valid_combinations :
            fgt(_calculate_match_score(valid_combinations[k], story_analysis), F_0_4)}}

IdsOf(detections) == {detections[i].combination.id : i \in DOMAIN detections}

NonIncreasing(detections) ==
    \A i, j \in DOMAIN detections :
        i < j => fge(detections[i].match_score, detections[j].match_score)

\* C1: when the request gives no explicit count, the count the detector infers
\* from the story lies in 3..31.
C1_InferredCountInRange ==
    (Analyzed /\ number_of_test_cases = NoneInt) => requested_count \in 3..31

C1_Witness ==
    /\ Analyzed /\ number_of_test_cases = NoneInt
    /\ requested_count = 4

\* C2: every detection returned by detect_combinations_from_story has a
\* match score strictly above 0.4.
C2_ReturnedAboveThreshold ==
    Analyzed =>
        \A i \in DOMAIN detected_combinations :
            fgt(detected_combinations[i].match_score, F_0_4)

C2_Witness ==
    /\ Analyzed
    /\ \E i \in DOMAIN detected_combinations :
          ~fge(detected_combinations[i].match_score, F_0_5)
    /\ Len(sorted_matches) < Len(valid_combinations)

\* C3: a requirement built by get_combination_requirements that holds rule 29,
\* 30 or 31 holds that rule alone, and no two requirements hold the same one.
C3_CriticalIdsKeptApart ==
    Analyzed =>
        /\ \A r \in DOMAIN requirements :
              \A i, j \in DOMAIN requirements[r].all_combinations :
                  requirements[r].all_combinations[i] \in CriticalIds
                      => requirements[r].all_combinations[j]
                            = requirements[r].all_combinations[i]
        /\ \A r1, r2 \in DOMAIN requirements :
              \A id \in CriticalIds :
                  (/\ Member(id, requirements[r1].all_combinations)
                   /\ Member(id, requirements[r2].all_combinations)) => r1 = r2

\* rule 29 in a requirement of its own next to a requirement of several other
\* rules with the same customer type, scenario type and truck roll
C3_Witness ==
    /\ Analyzed
    /\ \E r1, r2 \in DOMAIN requirements :
          /\ requirements[r1].all_combinations = <<29>>
          /\ Len(requirements[r2].all_combinations) >= 2
          /\ Member(28, requirements[r2].all_combinations)
          /\ requirements[r1].customer_type = requirements[r2].customer_type
          /\ requirements[r1].scenario_type = requirements[r2].scenario_type
          /\ requirements[r1].truck_roll_type = requirements[r2].truck_roll_type

\* C9: when the story holds association vocabulary and the request gives no
\* explicit count, analyze_requirements returns, for each of the rules 29, 30
\* and 31, a requirement that holds that rule alone.
C9_AssociationSurfacesCriticalRules ==
    (Analyzed /\ number_of_test_cases = NoneInt
        /\ story_analysis.association_process_detected)
    => \A id \in CriticalIds :
          \E r \in DOMAIN requirements :
              /\ requirements[r].combination_id = id
              /\ requirements[r].all_combinations = <<id>>
              /\ requirements[r].count_needed = 1

\* an association story for an install at a residential customer with a
\* technician visit: none of the three rules matches its order type, segment
\* or truck roll
C9_Witness ==
    /\ Analyzed /\ number_of_test_cases = NoneInt
    /\ story_analysis.association_process_detected
    /\ story_analysis.order_types = <<"install">>
    /\ story_analysis.customer_segments = <<"residential">>
    /\ story_analysis.truck_roll_preference = "with"
    /\ requested_count < 31
    /\ \E r \in DOMAIN requirements : requirements[r].combination_id = 31

\* C10 as stated: every catalog rule scoring above 0.4 is in the returned list.
C10_Original_NoRuleLeftOut ==
    Analyzed => PassingIds \subseteq IdsOf(detected_combinations)

\* C10: the detector's sorted list holds exactly the catalog rules scoring
\* above 0.4, each once, in non-increasing order of score, and the returned
\* list is its first min(2 * count, length) entries, where count is the
\* explicit count or the inferred one.
C10_ReturnsSortedPrefix ==
    Analyzed =>
        /\ IdsOf(sorted_matches) = PassingIds
        /\ Len(sorted_matches) = Cardinality(PassingIds)
        /\ NonIncreasing(sorted_matches)
        /\ detected_combinations =
              SubSeq(sorted_matches, 1, Min(2 * requested_count, Len(sorted_matches)))

C10_Witness ==
    /\ Analyzed
    /\ detected_combinations # <<>>
    /\ Len(detected_combinations) < Len(sorted_matches)
    /\ \E i, j \in DOMAIN detected_combinations :
          detected_combinations[i].match_score # detected_combinations[j].match_score

(***************************************************************************)
(* Further properties of the Requirement Detector (SpecDetect)             *)
(***************************************************************************)
\* the text the Coordinator hands to the detector
request_text == user_story \o " " \o additional_requirements

FullCoverageVocabulary ==
    AnyIn(full_coverage_keywords \cup count_association_keywords, lower(request_text))

\* C12: when the request text holds full-coverage or association-process
\* vocabulary and no count is given, the inferred count is 31; the request
\* 'comprehensive full coverage of all eero scenarios' is one of them.
C12_FullCoverageCountIs31 ==
    (Analyzed /\ number_of_test_cases = NoneInt) =>
        /\ FullCoverageVocabulary => requested_count = 31
        /\ user_story = "comprehensive full coverage of all eero scenarios" =>
              (FullCoverageVocabulary /\ requested_count = 31)

C12_Witness ==
    /\ Analyzed /\ number_of_test_cases = NoneInt
    /\ user_story = "comprehensive full coverage of all eero scenarios"
    /\ requested_count = 31
    /\ Len(detected_combinations) = 31

(***************************************************************************)
(* Properties of the requirement lists (SpecAdjust)                        *)
(***************************************************************************)
\* C13: every requirement has count_needed >= 1, as built by consolidation,
\* by the parsing of LLM output lines and by the diverse fallback, and after
\* _adjust_requirements_count, which never takes a count below 1.
C13_CountNeededAtLeastOne ==
    /\ \A i \in DOMAIN requirements : requirements[i].count_needed >= 1
    /\ \A i \in DOMAIN unadjusted_requirements : unadjusted_requirements[i].count_needed >= 1

\* an adjustment that reduced a count and stopped at 1 with the total still
\* above the target
C13_Witness ==
    /\ pc = "adjusted"
    /\ SumCounts(requirements) < SumCounts(unadjusted_requirements)
    /\ SumCounts(requirements) > number_of_test_cases
    /\ \A i \in DOMAIN requirements : requirements[i].count_needed = 1

(***************************************************************************)
(* Properties of the Template Store (SpecParse)                            *)
(***************************************************************************)
\* C8: the text written back from the parsed steps of a file parses to as many
\* steps as the file did.
C8_RoundTripKeepsStepCount ==
    pc = "reparsed" => Len(reparsed_steps) = Len(loaded.steps)

(***************************************************************************)
(* Properties of the Template Selector (SpecSelect)                        *)
(***************************************************************************)
\* the last call returned a template
Returned == selected.template # NoTestCase

\* customer-type or scenario-type differs from the requirement's
Mismatch(tc, requirement) ==
    \/ tc.customer_type # requirement.customer_type
    \/ tc.scenario_type # requirement.scenario_type

\* the positions of the non-generated templates that match the requirement in both
ExactMatches(store, requirement) ==
    {k \in DOMAIN store : ~store[k].is_generated /\ ~Mismatch(store[k], requirement)}

\* the score the last call gave to a template of the store
SelectedScore(tc) ==
    TemplateScore(tc, selected.requirement, detected_combination(selected.user_story),
                  selected.used_before)

\* C4 (as stated): the selector returns a template whose customer-type or
\* scenario-type differs from the requirement's only if the store holds no
\* non-generated template that equals the requirement in both.
C4_Original_MismatchOnlyWithoutExactMatch ==
    (Returned /\ Mismatch(selected.template, selected.requirement))
        => ExactMatches(test_cases, selected.requirement) = {}

\* C4 (amended): when the selector returns a template whose customer-type or
\* scenario-type differs from the requirement's, every non-generated template
\* that equals the requirement in both either was in the used history while the
\* returned one was not, or scores no more than the returned one.
C4_MismatchOnlyOverUsedOrOutscored ==
    (Returned /\ Mismatch(selected.template, selected.requirement))
        => \A k \in ExactMatches(test_cases, selected.requirement) :
              \/ /\ test_cases[k].id \in selected.used_before
                 /\ selected.template.id \notin selected.used_before
              \/ SelectedScore(test_cases[k]) <= SelectedScore(selected.template)

\* a mismatching template was returned although an exact match was in the store
\* and had not been used
C4_Witness ==
    /\ Returned
    /\ Mismatch(selected.template, selected.requirement)
    /\ \E k \in ExactMatches(test_cases, selected.requirement) :
          test_cases[k].id \notin selected.used_before

(***************************************************************************)
(* Properties of a whole run (SpecPipeline)                                *)
(***************************************************************************)
\* C5 (as stated): a request with number_of_test_cases = None runs to the end
\* and get_test_cases_from_user_story returns status 'success'.
C5_Original_NoneCountSucceeds ==
    (pc = "done" /\ number_of_test_cases = NoneInt) => result.status = "success"

\* the last generate_test_case call lost its LLM call or its recovery call
GenerationCallFailed ==
    generated.reason \in {"generation call failed", "recovery call failed"}

\* what the Coordinator returns when its LLM call raises
CoordinatorDefault ==
    Adjusted(_create_diverse_fallback(
                 <<>>,
                 IF Truthy(number_of_test_cases) THEN number_of_test_cases
                 ELSE determine_test_case_count(user_story, NoAnalysis)),
             number_of_test_cases)

\* C6 (as stated, for the Generation stage): a failed generation or recovery
\* call is replaced by a default result, so the call still yields a test case.
C6_Original_FailureReplacedByDefault ==
    GenerationCallFailed => generated.test_case # NoTestCase

\* C6 (amended): an LLM call failure is caught in its stage; the Coordinator
\* answers it with its diverse fallback requirements and Retrieval with its
\* top-scored templates, but a failed Generation or recovery call yields no
\* test case; the run still visits every requirement, and it ends 'failed' only
\* for a request without a count, whether or not an LLM call failed.
C6_FailuresCaughtGenerationYieldsNothing ==
    /\ "coordinator" \in llm_failures
          => requirements # <<>> /\ requirements = CoordinatorDefault
    /\ retrieved.path = "llm exception" => retrieved.cases # <<>>
    /\ GenerationCallFailed => generated.test_case = NoTestCase
    /\ result.status = "failed" => number_of_test_cases = NoneInt
    /\ pc = "done" => req_index = Len(requirements) + 1

\* a run that lost a generation call and still ended with test cases delivered
C6_Witness ==
    /\ pc = "done"
    /\ llm_failures \cap {"generation", "recovery"} # {}
    /\ result.status = "success"
    /\ result.test_cases # <<>>

(***************************************************************************)
(* The truck-roll flag of the Template Store (SpecParse)                   *)
(***************************************************************************)
Loaded == pc # "file"

filename_lower == lower(template_file.filename_stem)

NoTruckRollMarker == In("no truckroll", filename_lower) \/ In("no truck roll", filename_lower)

WithTruckRollMarker ==
    \/ In("with truckroll", filename_lower)
    \/ In("with truck roll", filename_lower)
    \/ In("w truck roll", filename_lower)

\* C11: a file name with a 'no truck roll' marker gives 'No'; otherwise one with
\* a 'with truck roll' marker gives 'With'; with no marker a change-of-service
\* template gives 'No' and a new-install template gives 'With'.
C11_TruckRollMarkerThenScenarioDefault ==
    Loaded =>
        /\ NoTruckRollMarker => loaded.truck_roll_type = "No"
        /\ (~NoTruckRollMarker /\ WithTruckRollMarker) => loaded.truck_roll_type = "With"
        /\ (~NoTruckRollMarker /\ ~WithTruckRollMarker) =>
              /\ loaded.scenario_type = "cos" => loaded.truck_roll_type = "No"
              /\ loaded.scenario_type = "install" => loaded.truck_roll_type = "With"
              /\ loaded.scenario_type \in {"cos", "install"}

\* a change-of-service file without any marker was loaded, with steps 1 and 2
C11_Witness ==
    /\ Loaded
    /\ ~NoTruckRollMarker /\ ~WithTruckRollMarker
    /\ loaded.scenario_type = "cos"
    /\ loaded.truck_roll_type = "No"
    /\ Len(loaded.steps) = 2

(***************************************************************************)
(* Templates without steps (SpecPipeline)                                  *)
(***************************************************************************)
\* C14 (as stated): a template whose parsed step list is empty is never
\* returned by Retrieval and never chosen by the Template Selector.
C14_MatchedTemplatesHaveSteps ==
    /\ \A i \in DOMAIN retrieved.cases : Len(retrieved.cases[i].steps) >= 1
    /\ Returned => Len(selected.template.steps) >= 1

(***************************************************************************)
(* Step numbers of the Template Store (SpecParse)                          *)
(***************************************************************************)
\* C15 (as stated): the step numbers of a loaded template, in list order, are
\* exactly 1, 2, ..., n, whatever numbered lines the file contains.
C15_StepNumbersAreOneToN ==
    Loaded => \A k \in DOMAIN loaded.steps : loaded.steps[k].step_number = ToString(k)

(***************************************************************************)
(* Diversity reset of the Template Selector (SpecDiversity)                *)
(***************************************************************************)
\* the selection just made chose the last template that had not been chosen:
\* every template of the store has now been selected once
AllSelectedOnce ==
    /\ Returned
    /\ selected.template.id \notin selected.used_before
    /\ {test_cases[k].id : k \in DOMAIN test_cases}
          = selected.used_before \cup {selected.template.id}

\* C16 (as stated): once every template of the store has been selected once,
\* the next selection clears the used-template history, which then holds the
\* template of that selection alone; this on a store of more than 5 templates.
C16_HistoryClearedOnceAllSelected ==
    [][AllSelectedOnce => _used_templates' = {selected'.template.id}]_vars


(***************************************************************************)
(* Tie-break of the Template Selector (SpecSelect)                         *)
(***************************************************************************)
\* the total score the selection just made gave to a template of the store
total_score(tc) ==
    TemplateScore(tc, selected.requirement, detected_combination(selected.user_story),
                  selected.used_before)

\* C17 (as stated): the selected template has the highest total score among
\* the templates of the store, and no template of the same total score has
\* more steps than the selected one.
C17_HighestScoreThenMoreSteps ==
    Returned =>
        \A k \in DOMAIN test_cases :
            /\ total_score(selected.template) >= total_score(test_cases[k])
            /\ total_score(selected.template) = total_score(test_cases[k])
                  => Len(selected.template.steps) >= Len(test_cases[k].steps)


(***************************************************************************)
(* LLM calls of one generate_test_case (SpecPipeline)                      *)
(***************************************************************************)
\* generate_test_case has run on a template: the first LLM call was made
Generated == generated.reply # NoReply

\* the first answer reached the quality check and failed it
FirstResultFailsQuality ==
    /\ generated.reply.kind = "ok"
    /\ LET complete_steps == _parse_o1_mini_response(generated.reply.content).complete_steps
       IN  /\ complete_steps \notin {None, ""}
           /\ ~_validate_generated_quality(_parse_steps_comprehensive(complete_steps),
                                           Len(selected.template.steps))

InUnitInterval(score) == fge(score, F_0_0) /\ fge(<<Limb, 0>>, score)

\* C19 (as stated): for every rule of the catalog, the match score of the
\* rule for the analysis of the story lies between 0.0 and 1.0 inclusive,
\* and so does the score of every detection returned.
C19_MatchScoreInUnitInterval ==
    Analyzed =>
        /\ \A k \in DOMAIN valid_combinations :
              InUnitInterval(_calculate_match_score(valid_combinations[k], story_analysis))
        /\ \A i \in DOMAIN detected_combinations :
              InUnitInterval(detected_combinations[i].match_score)


(***************************************************************************)
(* Additional devices for a business customer (SpecDetect)                 *)
(***************************************************************************)
\* the request text mentions 'additional eero devices' and 'business'
MentionsAdditionalDevicesForBusiness ==
    /\ In("additional eero devices", lower(request_text))
    /\ In("business", lower(request_text))

\* the returned list holds rule 28 or rule 29 with a score of 0.4 at least
ReturnsRule28Or29 ==
    \E i \in DOMAIN detected_combinations :
        /\ detected_combinations[i].combination.id \in {28, 29}
        /\ fge(detected_combinations[i].match_score, F_0_4)

\* C20: for a request that mentions 'additional eero devices' and 'business'
\* and gives no count, the list returned by detect_combinations_from_story
\* holds a detection of rule 28 or rule 29 with a score of 0.4 at least; the
\* request 'additional eero devices for business', which says nothing else,
\* is one of them.
C20_AdditionalDevicesForBusiness ==
    (Analyzed /\ number_of_test_cases = NoneInt) =>
        /\ MentionsAdditionalDevicesForBusiness => ReturnsRule28Or29
        /\ (user_story = "additional eero devices for business"
               /\ additional_requirements = "")
              => (MentionsAdditionalDevicesForBusiness /\ ReturnsRule28Or29)

C20_Witness ==
    /\ Analyzed /\ number_of_test_cases = NoneInt
    /\ user_story = "additional eero devices for business"
    /\ additional_requirements = ""
    /\ detected_combinations # <<>>
    /\ detected_combinations[1].combination.id = 28
    /\ Len(detected_combinations) < Len(sorted_matches)


(***************************************************************************)
(* Reuse of generated documents (SpecPipeline)                             *)
(***************************************************************************)
\* some retrieval on the store as it is could return the document
RetrievalCanReturn(tc) ==
    \E requirement \in SelectorRequirements, reply \in SelectionReplies(test_cases) :
        \E k \in DOMAIN find_test_cases(test_cases, requirement, reply).cases :
            find_test_cases(test_cases, requirement, reply).cases[k] = tc

\* some template selection on the store as it is could return the document
SelectionCanReturn(tc) ==
    \E requirement \in SelectorRequirements, story \in SelectorStories :
        \E used_templates \in {{}, _used_templates} :
            _find_best_template_with_rag(test_cases, used_templates, requirement,
                                         story).template = tc

\* C21 (as stated): a document generated earlier in the run is in the store
\* and a later retrieval or template selection can return it.
C21_GeneratedDocumentsReusable ==
    \A k \in DOMAIN test_cases :
        test_cases[k].is_generated =>
            (RetrievalCanReturn(test_cases[k]) \/ SelectionCanReturn(test_cases[k]))


(***************************************************************************)
(* Service codes of the catalog rules (SpecDetect)                         *)
(***************************************************************************)
\* the product-variant tag has an entry of its own in service_code_mapping
HasOwnServiceCode(eero_type) == eero_type \in DOMAIN service_code_mapping

\* C22 (as stated): every detection returned carries the service code of its
\* rule's own entry in the service-code mapping, and each of the 31 rules of
\* the catalog has such an entry: none gets 'HE008' for lack of one.
C22_EveryRuleHasOwnServiceCode ==
    Analyzed =>
        /\ \A i \in DOMAIN detected_combinations :
              /\ HasOwnServiceCode(detected_combinations[i].combination.eero_type)
              /\ detected_combinations[i].service_code =
                    service_code_mapping[detected_combinations[i].combination.eero_type]
        /\ \A k \in DOMAIN valid_combinations :
              HasOwnServiceCode(valid_combinations[k].eero_type)


(***************************************************************************)
(* Total of the requirements for an explicit count (SpecDetect)            *)
(***************************************************************************)
\* C23: when the request gives a count N >= 1, the count_needed values of
\* the requirements analyze_requirements returns sum to exactly N, whether
\* fewer or more than N rules of the catalog matched the request.
C23_CountsSumToExplicitCount ==
    (Analyzed /\ number_of_test_cases >= 1) =>
        SumCounts(requirements) = number_of_test_cases

\* fewer rules matched than the count asks for, and the adjustment added
\* the difference
C23_Witness ==
    /\ Analyzed /\ number_of_test_cases >= 1
    /\ Len(sorted_matches) < number_of_test_cases
    /\ SumCounts(unadjusted_requirements) < number_of_test_cases
    /\ SumCounts(requirements) = number_of_test_cases


(***************************************************************************)
(* Retrieval shortfall and generation (SpecPipeline)                       *)
(***************************************************************************)
\* the orchestrator is about to process requirements[req_index]
AtRequirement == pc = "analyzed" /\ req_index <= Len(requirements)

\* C24 (as stated): when a requirement is processed, the unique retrieved
\* cases added to the results and the generation attempts that follow add
\* up to its count_needed, and generation is attempted only when retrieval
\* returned fewer cases than count_needed.
C24_RetrievedPlusGeneratedIsCountNeeded ==
    [][AtRequirement =>
          /\ (total_retrieved' - total_retrieved) + missing_count'
                = requirements[req_index].count_needed
          /\ missing_count' > 0
                => Len(retrieved'.cases) < requirements[req_index].count_needed]_vars


(***************************************************************************)
(* What find_test_cases returns (SpecPipeline)                             *)
(***************************************************************************)
\* the cases are templates loaded from files that match the requirement in
\* its three fields, each at most once, count_needed of them at most
RetrievalFits(cases, requirement) ==
    /\ \A k \in DOMAIN cases :
          /\ ~cases[k].is_generated
          /\ \E m \in DOMAIN test_cases : test_cases[m] = cases[k]
          /\ cases[k].customer_type = requirement.customer_type
          /\ cases[k].scenario_type = requirement.scenario_type
          /\ cases[k].truck_roll_type = requirement.truck_roll_type
    /\ \A k, m \in DOMAIN cases : k # m => cases[k].id # cases[m].id
    /\ Len(cases) <= requirement.count_needed

\* C25: on each of its paths (all candidates, LLM selection accepted, LLM
\* selection too short, LLM exception) find_test_cases returns only
\* non-generated templates that match the requirement in customer type,
\* scenario type and truck roll, without repeats and never more than
\* count_needed of them.
C25_RetrievalReturnsMatchingTemplates ==
    [][AtRequirement =>
          /\ retrieved'.path \in {"no match", "all", "llm selection", "llm too short",
                                   "llm exception"}
          /\ RetrievalFits(retrieved'.cases, requirements[req_index])]_vars

\* the LLM left the choice to the scores: more candidates than needed
C25_Witness ==
    /\ retrieved.path = "llm too short"
    /\ retrieved.cases # <<>>
    /\ Len(MatchingCases(test_cases, requirements[1])) > Len(retrieved.cases)


(***************************************************************************)
(* Mandatory step preservation (SpecPipeline)                              *)
(***************************************************************************)
\* the LLM output generate_test_case accepted: the first answer's steps, or
\* the recovery's, which the test case keeps after 'Test_steps:\n'
AcceptedSteps ==
    _parse_steps_comprehensive(
        IF generated.reason = "generated"
        THEN _parse_o1_mini_response(generated.reply.content).complete_steps
        ELSE SubSeq(generated.test_case.content,
                    Find(generated.test_case.content, "Test_steps:\n", 1) + 12,
                    Len(generated.test_case.content)))

\* C26: generate_test_case returns a test case only if the steps parsed from
\* the accepted LLM output, a first answer or a recovery, are as many as the
\* steps of the template and are numbered 1..n; for a template without steps
\* it returns None.
C26_StepsPreserved ==
    generated.test_case # NoTestCase =>
        /\ generated.reason \in {"generated", "recovered"}
        /\ generated.test_case.steps = AcceptedSteps
        /\ Len(generated.test_case.steps) = Len(selected.template.steps)
        /\ Len(selected.template.steps) >= 1
        /\ \A k \in DOMAIN generated.test_case.steps :
              ParseInt(generated.test_case.steps[k].step_number) = k

\* a test case accepted from the recovery
C26_Witness ==
    /\ generated.test_case # NoTestCase
    /\ generated.reason = "recovered"
    /\ Len(generated.test_case.steps) = Len(selected.template.steps)
    /\ Len(generated.test_case.steps) >= 2


(***************************************************************************)
(* Ids of the delivered test cases (SpecPipeline)                          *)
(***************************************************************************)
DistinctIds(cases) == \A k, m \in DOMAIN cases : k # m => cases[k].id # cases[m].id

\* C27: in one run no two test cases collected for delivery, and so no two
\* of the result, share an id: a template retrieved for one requirement is
\* not delivered again for a later one and every generated case gets an id
\* not used before in the run.
C27_DeliveredIdsDistinct ==
    /\ DistinctIds(all_results)
    /\ DistinctIds(result.test_cases)
    /\ \A k \in DOMAIN all_results :
          all_results[k].is_generated => all_results[k].id \in _generated_ids

\* two generated cases delivered in one run
C27_Witness ==
    /\ result.status = "success"
    /\ \E k, m \in DOMAIN result.test_cases :
          /\ k # m
          /\ result.test_cases[k].is_generated
          /\ result.test_cases[m].is_generated


(***************************************************************************)
(* The used-template history after a selection (SpecDiversity)             *)
(***************************************************************************)
HasSelected == selected.template.id # ""

\* C28: after any sequence of template selections the history holds at
\* most 5 ids and contains the id of the template selected most recently.
C28_HistoryHoldsLastSelected ==
    /\ Cardinality(_used_templates) <= 5
    /\ HasSelected => selected.template.id \in _used_templates

\* the history was full and the id just selected is the one evicted
C28_LastSelectedEvicted ==
    /\ HasSelected
    /\ Cardinality(selected.used_before) = 5
    /\ selected.template.id \notin selected.used_before
    /\ _used_templates = selected.used_before


(***************************************************************************)
(* The default-synthesis path of the detector (SpecDetect)                 *)
(***************************************************************************)
NonEmptyWithin(list, values) ==
    list # <<>> /\ \A i \in DOMAIN list : list[i] \in values

MatchesOrderAndSegment(combo, analysis) ==
    /\ Member(combo.order_type, analysis.order_types)
    /\ Member(combo.segment, analysis.customer_segments)

\* C29: every analysis has order types and segments that are non-empty
\* lists over their two values, some catalog rule matches it on both order
\* type and segment and scores at least 0.5, so the list of matches is
\* never empty (the defaults are never synthesised) and no returned
\* detection has the placeholder rule id 999.
C29_DefaultPathNeverTaken ==
    Analyzed =>
        /\ NonEmptyWithin(story_analysis.order_types, {"install", "cos"})
        /\ NonEmptyWithin(story_analysis.customer_segments, {"residential", "business"})
        /\ \E i \in DOMAIN sorted_matches :
              /\ MatchesOrderAndSegment(sorted_matches[i].combination, story_analysis)
              /\ fge(sorted_matches[i].match_score, F_0_5)
        /\ \A k \in DOMAIN detected_combinations :
              detected_combinations[k].combination.id # 999

\* a story naming one order type and one segment, with rules left out
C29_Witness ==
    /\ Analyzed
    /\ Len(story_analysis.order_types) = 1
    /\ Len(story_analysis.customer_segments) = 1
    /\ detected_combinations # <<>>
    /\ \E i \in DOMAIN valid_combinations :
          /\ ~MatchesOrderAndSegment(valid_combinations[i], story_analysis)
          /\ \A k \in DOMAIN sorted_matches :
                sorted_matches[k].combination.id # valid_combinations[i].id


(***************************************************************************)
(* The requirement handed to the Generation stage (SpecPipeline)           *)
(***************************************************************************)
Generating == pc = "generating"

\* the service code field of a generated id is the given code
IdCarriesServiceCode(id, service_code) == In("_" \o service_code \o "_", id)

\* C30: the requirement passed to generate_test_case for a shortfall
\* carries the eero_type and the combination_id of the source requirement,
\* and a document generated for it gets the service code that
\* _get_correct_service_code gives for the source requirement.
C30_GenerationKeepsVariantAndRule ==
    [][Generating =>
          /\ selected'.requirement.eero_type = requirements[req_index].eero_type
          /\ selected'.requirement.combination_id = requirements[req_index].combination_id
          /\ generated'.test_case # NoTestCase =>
                IdCarriesServiceCode(generated'.test_case.id,
                                     _get_correct_service_code(requirements[req_index]))]_vars

\* the same, for the service code of the generated document alone
C30_ServiceCodeOfSource ==
    [][(Generating /\ generated'.test_case # NoTestCase) =>
          IdCarriesServiceCode(generated'.test_case.id,
                               _get_correct_service_code(requirements[req_index]))]_vars

====
